---- MODULE Spec2Model ----
(***************************************************************************)
(* JobSpy: the concurrent orchestrator scrape_jobs, the result merger and  *)
(* the Glassdoor, Google and ZipRecruiter scrapers, as state machines.     *)
(*                                                                         *)
(* Optional values: Python's None is the empty tuple, a present value v is *)
(* the one-element tuple <<v>>.                                            *)
(***************************************************************************)
EXTENDS Integers, Sequences, FiniteSets, TLC

VARIABLES
    \* ---- scrape_jobs (src/jobspy/__init__.py) ----
    scraper_input,      \* the one ScraperInput shared by every scraper
    enforce_annual,     \* argument enforce_annual_salary
    country_usa,        \* country_enum == Country.USA
    future,             \* site -> state of the future executor.submit returned
    result,             \* site -> the JobResponse.jobs its worker returned
    collected,          \* futures the as_completed loop has handled
    site_to_jobs_dict,  \* insertion-ordered dict: sequence of <<site, jobs>>
    logged,             \* sites whose failure was logged by the except clause
    rw_bound,           \* site -> the results_wanted its scraper bounds its pages by
    pc,                 \* position of scrape_jobs
    table,              \* the DataFrame scrape_jobs returns
    table_again,        \* the DataFrame of a second run of the merge step
    \* ---- field normalizers (src/jobspy/util.py) ----
    util_call,          \* the last call of a normalizer: its arguments and what it returned
    \* ---- Glassdoor (src/jobspy/glassdoor/__init__.py) ----
    gd,                 \* the Glassdoor instance and the locals of its scrape
    \* ---- Google (src/jobspy/google/__init__.py) ----
    go,                 \* the Google instance and the locals of its scrape
    \* ---- ZipRecruiter (src/jobspy/ziprecruiter/__init__.py) ----
    zr,                 \* the ZipRecruiter instance and the locals of its scrape
    \* ---- environment (src/jobspy/util.py) ----
    FLARESOLVERR_URL,   \* the bypass service endpoint, None when not configured
    \* ---- proxy-rotating sessions (src/jobspy/util.py) ----
    session,            \* one session and the requests its callers make through it
    \* ---- Glassdoor's request headers (src/jobspy/glassdoor/__init__.py) ----
    headers,            \* the dict headers of the module, imported from constant
    glassdoors          \* the Glassdoor instances of the process and their requests

\* the state of scrape_jobs apart from the ScraperInput
orch_rest == <<enforce_annual, country_usa, future, result,
               collected, site_to_jobs_dict, logged, rw_bound, pc, table>>
orch_vars == <<scraper_input, orch_rest>>
scraper_vars == <<gd, go, zr, FLARESOLVERR_URL>>
shared_vars == <<session, headers, glassdoors>>
util_vars == <<table_again, util_call, shared_vars>>
vars == <<orch_vars, scraper_vars, util_vars>>

----------------------------------------------------------------------------
(* Bounds of the model *)

\* listing ids (and URLs) an upstream hands out are 1..MaxListing
MaxListing == 2
\* number of listings on one upstream page
MaxPageLen == 2

\* total number of jobs all sources of one invocation return
MaxJobs == 2
\* dates are days 1..MaxDate; a larger number is a later date
MaxDate == 2

----------------------------------------------------------------------------
(* Values *)

None == <<>>
Some(v) == <<v>>
Val(x) == x[1]

Min(a, b) == IF a <= b THEN a ELSE b
Max(a, b) == IF a >= b THEN a ELSE b

Range(s) == {s[i] : i \in DOMAIN s}

\* Python's s[:n] and s[a:b] for 0 <= n, 0 <= a <= b
Take(s, n) == SubSeq(s, 1, Min(n, Len(s)))
Slice(s, a, b) == SubSeq(s, a + 1, Min(b, Len(s)))

RECURSIVE SeqsUpTo(_, _)
\* all sequences over S of length at most n
SeqsUpTo(S, n) ==
    IF n = 0 THEN {<<>>}
    ELSE LET shorter == SeqsUpTo(S, n - 1)
         IN  shorter \cup {Append(s, x) : s \in {t \in shorter : Len(t) = n - 1}, x \in S}

\* Python truthiness of an optional number
TruthyNum(x) == x # None /\ Val(x) # 0
\* Python truthiness of an optional list (or of an optional enum member,
\* which is always true when present)
TruthySeq(x) == x # None /\ Val(x) # <<>>

----------------------------------------------------------------------------
(* Sites *)

Sites == {"glassdoor", "google", "zip_recruiter"}

\* the order of the site values as strings ("glassdoor" < "google" < "zip_recruiter")
SiteRank(s) ==
    CASE s = "glassdoor" -> 1
      [] s = "google" -> 2
      [] s = "zip_recruiter" -> 3

\* the id prefix each scraper gives its jobs
IdPrefix(s) ==
    CASE s = "glassdoor" -> "gd"
      [] s = "google" -> "go"
      [] s = "zip_recruiter" -> "zr"

----------------------------------------------------------------------------
(* Insertion-ordered dicts (Python dict, pandas column index): a sequence  *)
(* of <<key, value>> pairs with pairwise distinct keys.                    *)

DictKeys(d) == [i \in DOMAIN d |-> d[i][1]]
DictHas(d, k) == \E i \in DOMAIN d : d[i][1] = k
\* d[k], and d.get(k) where the key may be missing
DictGet(d, k) ==
    IF DictHas(d, k) THEN d[CHOOSE i \in DOMAIN d : d[i][1] = k][2] ELSE None
\* d[k] = v: an existing key keeps its place, a new key goes last
DictSet(d, k, v) ==
    IF DictHas(d, k)
    THEN [i \in DOMAIN d |-> IF d[i][1] = k THEN <<k, v>> ELSE d[i]]
    ELSE Append(d, <<k, v>>)

RECURSIVE Join(_)
\* ", ".join(parts): the parts with the separator between them
Join(parts) ==
    IF Len(parts) = 0 THEN <<>>
    ELSE IF Len(parts) = 1 THEN parts
    ELSE <<Head(parts), ", ">> \o Join(Tail(parts))

----------------------------------------------------------------------------
(* Field normalizers (src/jobspy/util.py) *)

lower_limit == 1000
upper_limit == 700000
hourly_threshold == 350
monthly_threshold == 30000

convert_hourly_to_annual(hourly_wage) == hourly_wage * 2080
convert_monthly_to_annual(monthly_wage) == monthly_wage * 12

NoSalary == [interval |-> None, min_amount |-> None, max_amount |-> None, currency |-> None]

\* SalaryInterval with the thresholds taken inclusive
SalaryIntervalInclusive(min_salary) ==
    IF min_salary <= hourly_threshold THEN "hourly"
    ELSE IF min_salary <= monthly_threshold THEN "monthly"
    ELSE "yearly"

\* lines 296-312 of extract_salary: the interval of a range, by its minimum
SalaryInterval(min_salary) ==
    IF min_salary < hourly_threshold THEN "hourly"
    ELSE IF min_salary < monthly_threshold THEN "monthly"
    ELSE "yearly"

\* lines 296-312 of extract_salary: annual_min_salary
AnnualMin(min_salary) ==
    IF min_salary < hourly_threshold THEN convert_hourly_to_annual(min_salary)
    ELSE IF min_salary < monthly_threshold THEN convert_monthly_to_annual(min_salary)
    ELSE min_salary

\* AnnualMax with the maximum converted by the threshold it is under itself
AnnualMaxByOwnThreshold(min_salary, max_salary) ==
    IF max_salary < hourly_threshold THEN Some(convert_hourly_to_annual(max_salary))
    ELSE IF max_salary < monthly_threshold THEN Some(convert_monthly_to_annual(max_salary))
    ELSE Some(max_salary)

\* lines 296-312 of extract_salary: annual_max_salary, which stays None when
\* the maximum is not under the threshold the minimum is under
AnnualMax(min_salary, max_salary) ==
    IF min_salary < hourly_threshold
    THEN IF max_salary < hourly_threshold
         THEN Some(convert_hourly_to_annual(max_salary)) ELSE None
    ELSE IF min_salary < monthly_threshold
    THEN IF max_salary < monthly_threshold
         THEN Some(convert_monthly_to_annual(max_salary)) ELSE None
    ELSE Some(max_salary)

\* CheckedSalary without the test annual_min_salary < annual_max_salary
CheckedSalaryUnordered(interval, min_salary, max_salary, annual_min_salary, annual_max_salary, enforce) ==
    IF ~TruthyNum(annual_max_salary) THEN NoSalary
    ELSE IF /\ lower_limit <= annual_min_salary
            /\ annual_min_salary <= upper_limit
            /\ lower_limit <= Val(annual_max_salary)
            /\ Val(annual_max_salary) <= upper_limit
    THEN IF enforce
         THEN [interval |-> Some(interval), min_amount |-> Some(annual_min_salary),
               max_amount |-> annual_max_salary, currency |-> Some("USD")]
         ELSE [interval |-> Some(interval), min_amount |-> Some(min_salary),
               max_amount |-> Some(max_salary), currency |-> Some("USD")]
    ELSE NoSalary

\* lines 314-326 of extract_salary: the sanity checks and the returned tuple
CheckedSalary(interval, min_salary, max_salary, annual_min_salary, annual_max_salary, enforce) ==
    IF ~TruthyNum(annual_max_salary) THEN NoSalary
    ELSE IF /\ lower_limit <= annual_min_salary
            /\ annual_min_salary <= upper_limit
            /\ lower_limit <= Val(annual_max_salary)
            /\ Val(annual_max_salary) <= upper_limit
            /\ annual_min_salary < Val(annual_max_salary)
    THEN IF enforce
         THEN [interval |-> Some(interval), min_amount |-> Some(annual_min_salary),
               max_amount |-> annual_max_salary, currency |-> Some("USD")]
         ELSE [interval |-> Some(interval), min_amount |-> Some(min_salary),
               max_amount |-> Some(max_salary), currency |-> Some("USD")]
    ELSE NoSalary

\* lines 296-326 of extract_salary, for the range min_salary - max_salary
SalaryOfRange(min_salary, max_salary, enforce) ==
    CheckedSalary(SalaryInterval(min_salary), min_salary, max_salary,
                  AnnualMin(min_salary), AnnualMax(min_salary, max_salary), enforce)

\* lines 289-294 of extract_salary: both numbers are multiplied by 1000 when
\* either carries a k suffix
SalaryOfMatch(m, enforce) ==
    IF m.kmin \/ m.kmax
    THEN SalaryOfRange(m.min * 1000, m.max * 1000, enforce)
    ELSE SalaryOfRange(m.min, m.max, enforce)

\* extract_salary(salary_str, enforce_annual_salary=enforce).  A text is a
\* record; text.empty says it is the empty string and text.salary is the first
\* match of min_max_pattern in it: None, or the two numbers as to_int reads
\* them with their k suffixes, [min, kmin, max, kmax].
extract_salary(salary_str, enforce) ==
    IF salary_str = None THEN NoSalary
    ELSE IF Val(salary_str).empty THEN NoSalary
    ELSE IF Val(salary_str).salary = None THEN NoSalary
    ELSE SalaryOfMatch(Val(Val(salary_str).salary), enforce)

\* AnnualFactor with the daily case forgotten
AnnualFactorWithoutDaily(interval) ==
    CASE interval = "hourly" -> 2080
      [] interval = "monthly" -> 12
      [] interval = "weekly" -> 52
      [] OTHER -> 1

\* the factor convert_to_annual multiplies both amounts by
AnnualFactor(interval) ==
    CASE interval = "hourly" -> 2080
      [] interval = "monthly" -> 12
      [] interval = "weekly" -> 52
      [] interval = "daily" -> 260
      [] OTHER -> 1

\* job_data[key] *= f
DictScale(job_data, key, f) == DictSet(job_data, key, Some(Val(DictGet(job_data, key)) * f))

\* the amounts of job_data multiplied by f and its interval set to "yearly"
Annualized(job_data, f) ==
    DictSet(DictScale(DictScale(job_data, "min_amount", f), "max_amount", f),
            "interval", Some("yearly"))

\* convert_to_annual(job_data), on a job_data whose interval, min_amount and
\* max_amount are present (its caller's guard)
convert_to_annual(job_data) ==
    Annualized(job_data, AnnualFactor(Val(DictGet(job_data, "interval"))))

\* extract_emails_from_text(text), text None or a text of which empty tells
\* whether it is "" and emails lists the matches of email_regex in it in
\* order: None for a falsy text, else what findall returns
extract_emails_from_text(text) ==
    IF text = None \/ Val(text).empty THEN None
    ELSE Some(Val(text).emails)

\* the keys of the keywords dict of extract_job_type, in its order
JobTypeKeywords == <<"fulltime", "parttime", "internship", "contract">>

\* extract_job_type(description), description None or a text of which
\* job_types is the set of the keys whose pattern is found in it: the empty
\* list for a falsy description, else the list of the keys found, None
\* when that list is empty
extract_job_type(description) ==
    IF description = None \/ Val(description).empty THEN Some(<<>>)
    ELSE LET listing_types == SelectSeq(JobTypeKeywords,
                                        LAMBDA key : key \in Val(description).job_types)
         IN  IF listing_types # <<>> THEN Some(listing_types) ELSE None

desired_order ==
    << "id", "site", "job_url", "job_url_direct", "title", "company", "location",
       "date_posted", "job_type", "salary_source", "interval", "min_amount",
       "max_amount", "currency", "is_remote", "job_level", "job_function",
       "listing_type", "emails", "description", "company_industry", "company_url",
       "company_logo", "company_url_direct", "company_addresses",
       "company_num_employees", "company_revenue", "company_description",
       "skills", "experience_range", "company_rating", "company_reviews_count",
       "vacancy_count", "work_from_home_type" >>

----------------------------------------------------------------------------
(* Job records *)

\* the fields of a JobPost that the scrapers set and scrape_jobs reads, in
\* the order job.dict() lists them
JobPostFields ==
    << "id", "title", "company_name", "job_url", "job_url_direct", "location",
       "description", "company_url", "job_type", "compensation", "date_posted",
       "emails", "is_remote", "listing_type", "company_logo", "skills" >>

\* a JobPost with every field unset
EmptyJobPost == [f \in Range(JobPostFields) |-> None]

\* Location.display_location(): the non-null components joined by ", "
display_location(loc) ==
    Join(SelectSeq(<<loc.city, loc.state, loc.country>>, LAMBDA c : c # None))

\* job.dict(): the fields as an insertion-ordered dict
JobDict(job) == [i \in DOMAIN JobPostFields |-> <<JobPostFields[i], job[JobPostFields[i]]>>]

\* JobAfterDict for a job_data that were the JobPost's own attribute dict:
\* what the loop writes to job_data is written to the JobPost
JobAfterDictAliased(job, job_data) == [f \in DOMAIN job |-> DictGet(job_data, f)]

\* the JobPost after the loop body has worked on job_data = job.dict():
\* dict() builds a new dict (nested models and lists included), so the
\* JobPost keeps its fields
JobAfterDict(job, job_data) == job

\* job_data with the four salary columns set from sal
SetSalary(job_data, sal) ==
    DictSet(DictSet(DictSet(DictSet(job_data,
        "interval", sal.interval),
        "min_amount", sal.min_amount),
        "max_amount", sal.max_amount),
        "currency", sal.currency)

\* lines 162-178 of scrape_jobs: the salary columns from the structured
\* compensation c, converted to annual under the guard of line 172
DirectSalary(job_data, c, enforce) ==
    IF /\ enforce
       /\ c.interval # None
       /\ Val(c.interval) # "yearly"
       /\ TruthyNum(c.min_amount)
       /\ TruthyNum(c.max_amount)
    THEN convert_to_annual(DictSet(SetSalary(job_data, c), "salary_source", Some("direct_data")))
    ELSE DictSet(SetSalary(job_data, c), "salary_source", Some("direct_data"))

\* lines 180-190 of scrape_jobs: the salary columns from the description
DescriptionSalary(job_data, enforce) ==
    DictSet(SetSalary(job_data, extract_salary(DictGet(job_data, "description"), enforce)),
            "salary_source", Some("description"))

\* Compensation without the test of country_enum at line 180: the
\* description is read whatever the country
CompensationAnyCountry(job_data, enforce, usa) ==
    IF DictGet(job_data, "compensation") # None
    THEN DirectSalary(job_data, Val(DictGet(job_data, "compensation")), enforce)
    ELSE DescriptionSalary(job_data, enforce)

\* lines 161-190 of scrape_jobs: the salary columns of one job
Compensation(job_data, enforce, usa) ==
    IF DictGet(job_data, "compensation") # None
    THEN DirectSalary(job_data, Val(DictGet(job_data, "compensation")), enforce)
    ELSE IF usa THEN DescriptionSalary(job_data, enforce)
    ELSE job_data

\* lines 192-196 of scrape_jobs: salary_source is kept only with a min_amount
SalarySource(job_data) ==
    DictSet(job_data, "salary_source",
            IF DictHas(job_data, "min_amount") /\ TruthyNum(DictGet(job_data, "min_amount"))
            THEN DictGet(job_data, "salary_source") ELSE None)

\* job_data[key] = job_data.get(from)
DictCopy(job_data, key, from) == DictSet(job_data, key, DictGet(job_data, from))

\* job_data[key] = ", ".join(job_data[key]) if job_data[key] else None
DictJoin(job_data, key) ==
    DictSet(job_data, key,
            IF TruthySeq(DictGet(job_data, key)) THEN Some(Join(Val(DictGet(job_data, key))))
            ELSE None)

\* lines 155-158 of scrape_jobs
DisplayLocation(job_data) ==
    IF DictGet(job_data, "location") # None
    THEN DictSet(job_data, "location", Some(display_location(Val(DictGet(job_data, "location")))))
    ELSE job_data

\* lines 143-158 of scrape_jobs
ProcessJobHead(site, job) ==
    DisplayLocation(DictJoin(DictJoin(DictCopy(DictSet(JobDict(job),
        "site", Some(site)),
        "company", "company_name"),
        "job_type"),
        "emails"))

\* lines 198-206 of scrape_jobs
ProcessJobTail(job_data) ==
    DictCopy(DictCopy(DictCopy(DictCopy(DictCopy(DictJoin(job_data,
        "skills"),
        "experience_range", "experience_range"),
        "company_rating", "company_rating"),
        "company_reviews_count", "company_reviews_count"),
        "vacancy_count", "vacancy_count"),
        "work_from_home_type", "work_from_home_type")

\* the body of the loop over job_response.jobs in scrape_jobs: the job_data
\* dict of one job, from which its one-row DataFrame is built
ProcessJob(site, job, enforce, usa) ==
    ProcessJobTail(SalarySource(Compensation(ProcessJobHead(site, job), enforce, usa)))

----------------------------------------------------------------------------
(* DataFrames: [columns |-> sequence of names, rows |-> sequence of rows],  *)
(* a row a function from the column names to cells; a missing cell (NaN,    *)
(* None) is None.                                                          *)

EmptyFrame == [columns |-> <<>>, rows |-> <<>>]

\* pd.DataFrame([job_data]).dropna(axis=1, how="all"): the one-row frame
\* without the columns whose only cell is missing
DropNaColumns(job_data) == SelectSeq(job_data, LAMBDA p : p[2] # None)

RECURSIVE UnionColumns(_, _)
\* the column index of pd.concat: every column, in order of first appearance
UnionColumns(cols, dfs) ==
    IF dfs = <<>> THEN cols
    ELSE LET new == SelectSeq(DictKeys(Head(dfs)), LAMBDA c : c \notin Range(cols))
         IN  UnionColumns(cols \o new, Tail(dfs))

\* Concat with join="inner": only the columns every frame has
ConcatInner(dfs) ==
    LET cols == SelectSeq(UnionColumns(<<>>, dfs),
                          LAMBDA c : \A i \in DOMAIN dfs : DictHas(dfs[i], c))
    IN  [columns |-> cols,
         rows |-> [i \in DOMAIN dfs |-> [c \in Range(cols) |-> DictGet(dfs[i], c)]]]

\* pd.concat(filtered_dfs, ignore_index=True) of one-row frames
Concat(dfs) ==
    LET cols == UnionColumns(<<>>, dfs)
    IN  [columns |-> cols,
         rows |-> [i \in DOMAIN dfs |-> [c \in Range(cols) |-> DictGet(dfs[i], c)]]]

\* for column in order: if column not in df.columns: df[column] = None
\* (each new column goes last, in the order of the loop, with every cell None)
AddMissing(df, order) ==
    LET old == Range(df.columns)
        cols == df.columns \o SelectSeq(order, LAMBDA c : c \notin old)
    IN  [columns |-> cols,
         rows |-> [i \in DOMAIN df.rows |->
                     [k \in Range(cols) |-> IF k \in old THEN df.rows[i][k] ELSE None]]]

\* Reindex left out: the frame keeps the columns of the concatenation
ReindexOmitted(df, order) == df

\* Reindex that keeps only the columns of order in which some row has a value
ReindexDroppingEmpty(df, order) ==
    [columns |-> SelectSeq(order, LAMBDA c : \E i \in DOMAIN df.rows : df.rows[i][c] # None),
     rows |-> [i \in DOMAIN df.rows |->
                 [c \in {k \in Range(order) : \E j \in DOMAIN df.rows : df.rows[j][k] # None}
                    |-> df.rows[i][c]]]]

\* df[order]: the columns of order, in that order
Reindex(df, order) ==
    [columns |-> order,
     rows |-> [i \in DOMAIN df.rows |-> [c \in Range(order) |-> df.rows[i][c]]]]

\* RowBefore with the date ascending like the site
RowBeforeAscending(a, b) ==
    LET sa == SiteRank(Val(a["site"]))
        sb == SiteRank(Val(b["site"]))
        da == a["date_posted"]
        db == b["date_posted"]
    IN  \/ sa < sb
        \/ /\ sa = sb
           /\ \/ da # None /\ db = None
              \/ da # None /\ db # None /\ Val(da) < Val(db)

\* row a goes before row b under by=["site", "date_posted"],
\* ascending=[True, False], na_position="last"
RowBefore(a, b) ==
    LET sa == SiteRank(Val(a["site"]))
        sb == SiteRank(Val(b["site"]))
        da == a["date_posted"]
        db == b["date_posted"]
    IN  \/ sa < sb
        \/ /\ sa = sb
           /\ \/ da # None /\ db = None
              \/ da # None /\ db # None /\ Val(da) > Val(db)

RECURSIVE InsertRow(_, _)
\* rows sorted, r put after every row that does not come after it
InsertRow(rows, r) ==
    IF rows = <<>> THEN <<r>>
    ELSE IF RowBefore(r, Head(rows)) THEN <<r>> \o rows
    ELSE <<Head(rows)>> \o InsertRow(Tail(rows), r)

RECURSIVE SortRows(_, _)
SortRows(sorted, rows) ==
    IF rows = <<>> THEN sorted
    ELSE SortRows(InsertRow(sorted, Head(rows)), Tail(rows))

\* SortValues left out: the rows stay in the order of the concatenation
SortValuesOmitted(df) == df

\* df.sort_values(by=["site", "date_posted"], ascending=[True, False])
\*   .reset_index(drop=True): a stable sort of the rows
SortValues(df) == [columns |-> df.columns, rows |-> SortRows(<<>>, df.rows)]

RECURSIVE JobsDfs(_, _, _, _)
\* the loop over site_to_jobs_dict.items(): one job_data per job, in dict
\* order and, within a site, in the order of its JobResponse
JobsDfs(dict, acc, enforce, usa) ==
    IF dict = <<>> THEN acc
    ELSE LET site == Head(dict)[1]
             jobs == Head(dict)[2]
         IN  JobsDfs(Tail(dict),
                     acc \o [i \in DOMAIN jobs |-> ProcessJob(site, jobs[i], enforce, usa)],
                     enforce, usa)

\* MergeTable without the test of line 211: the canonical columns are
\* laid out also when there is no job
MergeTableUnguarded(dict, enforce, usa) ==
    LET jobs_dfs == JobsDfs(dict, <<>>, enforce, usa)
        filtered_dfs == [i \in DOMAIN jobs_dfs |-> DropNaColumns(jobs_dfs[i])]
    IN  SortValues(Reindex(AddMissing(Concat(filtered_dfs), desired_order), desired_order))

\* lines 141-209 of scrape_jobs: the JobResponses of site_to_jobs_dict after
\* the loop has gone over them
JobsAfterMerge(dict, enforce, usa) ==
    [k \in DOMAIN dict |->
        <<dict[k][1],
          [i \in DOMAIN dict[k][2] |->
              JobAfterDict(dict[k][2][i], ProcessJob(dict[k][1], dict[k][2][i], enforce, usa))]>>]

\* lines 139-231 of scrape_jobs: the table built from site_to_jobs_dict
MergeTable(dict, enforce, usa) ==
    LET jobs_dfs == JobsDfs(dict, <<>>, enforce, usa) IN
    IF jobs_dfs # <<>>
    THEN LET filtered_dfs == [i \in DOMAIN jobs_dfs |-> DropNaColumns(jobs_dfs[i])]
             jobs_df == AddMissing(Concat(filtered_dfs), desired_order)
         IN  SortValues(Reindex(jobs_df, desired_order))
    ELSE EmptyFrame

----------------------------------------------------------------------------
(* Calls of the field normalizers, on arguments drawn from small sets *)

\* the numbers a match of min_max_pattern can hold, as to_int reads them:
\* around the thresholds and the limits, and the ranges of the documentation
SalaryNumbers ==
    {0, 1, 20, 30, 50, 70, 349, 350, 700, 5000, 25000, 29999, 30000, 45000, 50000,
     70000, 700000, 700001}

\* the first match of min_max_pattern in a text: group 1 and group 3 through
\* to_int, and whether group 2 and group 4 hold a k or K
SalaryMatches == [min : SalaryNumbers, kmin : BOOLEAN, max : SalaryNumbers, kmax : BOOLEAN]

\* the texts extract_salary is called on: the empty string, a text without
\* a match, a text with a match
SalaryTexts ==
    {[empty |-> TRUE, salary |-> None], [empty |-> FALSE, salary |-> None]}
    \cup {[empty |-> FALSE, salary |-> Some(m)] : m \in SalaryMatches}

\* the salary_str argument: None or a text
SalaryStrs == {None} \cup {Some(t) : t \in SalaryTexts}

\* the intervals of CompensationInterval that convert_to_annual is called with
Intervals == {"hourly", "monthly", "weekly", "daily", "yearly"}

\* the amounts of the job_data convert_to_annual is called with
Amounts == {1, 20, 5000, 7000}

\* a job_data as scrape_jobs hands it to convert_to_annual: the salary
\* columns among the other keys
AnnualJobData(interval, min_amount, max_amount) ==
    << <<"title", Some("title")>>, <<"interval", Some(interval)>>,
       <<"min_amount", Some(min_amount)>>, <<"max_amount", Some(max_amount)>>,
       <<"currency", Some("USD")>>, <<"salary_source", Some("direct_data")>> >>

\* the addresses email_regex can match in a text
Addresses == {"a@x.io", "b@y.org"}

\* the texts extract_emails_from_text and extract_job_type are called on:
\* the empty string, or a text with the addresses and the job type keywords
\* found in it
Texts ==
    {[empty |-> TRUE, emails |-> <<>>, job_types |-> {}]}
    \cup {[empty |-> FALSE, emails |-> es, job_types |-> ks] :
             es \in SeqsUpTo(Addresses, 2), ks \in SUBSET Range(JobTypeKeywords)}

\* the text argument: None or a text
TextArgs == {None} \cup {Some(t) : t \in Texts}

\* no normalizer is being called
UtilNew ==
    [fn |-> "none", returned |-> FALSE, salary_str |-> None, enforce |-> FALSE,
     salary |-> NoSalary, job_data_arg |-> <<>>, job_data |-> <<>>,
     text |-> None, found |-> None]

UtilIdle == util_call = UtilNew /\ table_again = EmptyFrame

UtilUnchanged == UNCHANGED <<orch_vars, scraper_vars, table_again, shared_vars>>

\* a normalizer is about to be called on its arguments
UtilInit ==
    \/ \E salary_str \in SalaryStrs, enforce \in BOOLEAN :
          util_call = [UtilNew EXCEPT !.fn = "extract_salary",
                                      !.salary_str = salary_str,
                                      !.enforce = enforce]
    \/ \E interval \in Intervals, min_amount \in Amounts, max_amount \in Amounts :
          util_call = [UtilNew EXCEPT !.fn = "convert_to_annual",
                                      !.job_data_arg = AnnualJobData(interval, min_amount, max_amount),
                                      !.job_data = AnnualJobData(interval, min_amount, max_amount)]
    \/ \E text \in TextArgs, fn \in {"extract_emails_from_text", "extract_job_type"} :
          util_call = [UtilNew EXCEPT !.fn = fn, !.text = text]

\* extract_salary(salary_str, enforce_annual_salary=enforce) returns
CallExtractSalary ==
    /\ util_call.fn = "extract_salary"
    /\ ~util_call.returned
    /\ util_call' = [util_call EXCEPT
                        !.returned = TRUE,
                        !.salary = extract_salary(util_call.salary_str, util_call.enforce)]
    /\ UtilUnchanged

\* convert_to_annual(job_data) returns, having changed job_data in place
CallConvertToAnnual ==
    /\ util_call.fn = "convert_to_annual"
    /\ ~util_call.returned
    /\ util_call' = [util_call EXCEPT !.returned = TRUE,
                                      !.job_data = convert_to_annual(util_call.job_data)]
    /\ UtilUnchanged

\* extract_emails_from_text(text) returns
CallExtractEmails ==
    /\ util_call.fn = "extract_emails_from_text"
    /\ ~util_call.returned
    /\ util_call' = [util_call EXCEPT !.returned = TRUE,
                                      !.found = extract_emails_from_text(util_call.text)]
    /\ UtilUnchanged

\* extract_job_type(text) returns
CallExtractJobType ==
    /\ util_call.fn = "extract_job_type"
    /\ ~util_call.returned
    /\ util_call' = [util_call EXCEPT !.returned = TRUE,
                                      !.found = extract_job_type(util_call.text)]
    /\ UtilUnchanged

UtilNext ==
    \/ CallExtractSalary
    \/ CallConvertToAnnual
    \/ CallExtractEmails
    \/ CallExtractJobType

----------------------------------------------------------------------------
(* scrape_jobs: the fan-out over the sources and the collection loop *)

\* the hard ceiling Glassdoor.scrape and Google.scrape put on results_wanted
MaxResultsWanted == 900

\* results_wanted as the caller passes it: the default, and one above the ceiling
ResultsWantedChoices == {15, MaxResultsWanted + 1}

Dates == {None} \cup {Some(d) : d \in 1..MaxDate}

\* the n-th job a source returns, posted on date
MkJob(site, n, date) ==
    [EmptyJobPost EXCEPT !["id"] = Some(<<IdPrefix(site), n>>),
                         !["job_url"] = Some(<<site, n>>),
                         !["title"] = Some("title"),
                         !["company_name"] = Some("company"),
                         !["date_posted"] = date]

\* the JobResponses a source may return: any dates, at most n jobs
Responses(site, n) ==
    {[i \in DOMAIN dates |-> MkJob(site, i, dates[i])] : dates \in SeqsUpTo(Dates, n)}

TotalJobs == LET RECURSIVE Sum(_)
                 Sum(S) == IF S = {} THEN 0
                           ELSE LET x == CHOOSE x \in S : TRUE
                                IN  Len(result[x]) + Sum(S \ {x})
             IN  Sum(Sites)

\* self.scraper_input.results_wanted = min(900, scraper_input.results_wanted),
\* the first statements of Glassdoor.scrape and of Google.scrape;
\* ZipRecruiter.scrape has no such statement
ScrapePrologue(site, inp) ==
    IF site \in {"glassdoor", "google"}
    THEN [inp EXCEPT !.results_wanted = Min(MaxResultsWanted, inp.results_wanted)]
    ELSE inp

\* the worker of one site, scrape_site: the scraper is constructed, which
\* may raise; scrape starts on the shared input and reads the results_wanted
\* that bounds its pages; it returns a JobResponse or raises
Worker(site) ==
    /\ pc = "collect"
    /\ future[site] = "pending"
    /\ \/ /\ future' = [future EXCEPT ![site] = "raised"]
          /\ UNCHANGED <<scraper_input, rw_bound, result>>
       \/ /\ scraper_input' = ScrapePrologue(site, scraper_input)
          /\ rw_bound' = [rw_bound EXCEPT ![site] = Some(scraper_input'.results_wanted)]
          /\ \/ \E r \in Responses(site, MaxJobs - TotalJobs) :
                  /\ result' = [result EXCEPT ![site] = r]
                  /\ future' = [future EXCEPT ![site] = "returned"]
             \/ /\ future' = [future EXCEPT ![site] = "raised"]
                /\ UNCHANGED result
    /\ UNCHANGED <<enforce_annual, country_usa, collected,
                   site_to_jobs_dict, logged, pc, table, scraper_vars, util_vars>>

\* HandleFuture without the except clause: future.result() re-raises
HandleFutureUncaught(dict, log, site, state, jobs) ==
    IF state = "returned"
    THEN [dict |-> DictSet(dict, site, jobs), logged |-> log, raised |-> FALSE]
    ELSE [dict |-> dict, logged |-> log, raised |-> TRUE]

\* the body of the as_completed loop for one completed future: try
\* future.result() and store it under the site, except Exception: log
HandleFuture(dict, log, site, state, jobs) ==
    IF state = "returned"
    THEN [dict |-> DictSet(dict, site, jobs), logged |-> log, raised |-> FALSE]
    ELSE [dict |-> dict, logged |-> log \cup {site}, raised |-> FALSE]

\* as_completed yields a future that is done, in the order they complete
Collect(site) ==
    /\ pc = "collect"
    /\ future[site] \in {"returned", "raised"}
    /\ site \notin collected
    /\ LET h == HandleFuture(site_to_jobs_dict, logged, site, future[site], result[site])
       IN  /\ site_to_jobs_dict' = h.dict
           /\ logged' = h.logged
           /\ pc' = IF h.raised THEN "raised" ELSE pc
    /\ collected' = collected \cup {site}
    /\ UNCHANGED <<scraper_input, enforce_annual, country_usa, future, result,
                   rw_bound, table, scraper_vars, util_vars>>

\* every future is handled: the executor is left, the table is built and returned
Merge ==
    /\ pc = "collect"
    /\ collected = scraper_input.site_type
    /\ table' = MergeTable(site_to_jobs_dict, enforce_annual, country_usa)
    /\ site_to_jobs_dict' = JobsAfterMerge(site_to_jobs_dict, enforce_annual, country_usa)
    /\ pc' = "done"
    /\ UNCHANGED <<scraper_input, enforce_annual, country_usa, future, result,
                   collected, logged, rw_bound, scraper_vars, util_vars>>

\* the merge step (lines 139-231) run a second time on the same collection
MergeAgain ==
    /\ pc = "done"
    /\ table_again' = MergeTable(site_to_jobs_dict, enforce_annual, country_usa)
    /\ site_to_jobs_dict' = JobsAfterMerge(site_to_jobs_dict, enforce_annual, country_usa)
    /\ pc' = "merged again"
    /\ UNCHANGED <<scraper_input, enforce_annual, country_usa, future, result,
                   collected, logged, rw_bound, table, scraper_vars, util_call,
                   shared_vars>>

\* scrape_jobs has built the ScraperInput and submitted one worker per site;
\* offset, enforce_annual_salary and country_indeed have their default values
OrchInit ==
    /\ \E sites \in SUBSET Sites, rw \in ResultsWantedChoices :
          scraper_input = [site_type |-> sites, results_wanted |-> rw, offset |-> 0]
    /\ enforce_annual = FALSE
    /\ country_usa = TRUE
    /\ future = [s \in Sites |-> IF s \in scraper_input.site_type THEN "pending" ELSE "absent"]
    /\ result = [s \in Sites |-> <<>>]
    /\ collected = {}
    /\ site_to_jobs_dict = <<>>
    /\ logged = {}
    /\ rw_bound = [s \in Sites |-> None]
    /\ pc = "collect"
    /\ table = EmptyFrame

\* the structured compensation of a JobPost: none, or a Compensation whose
\* interval and amounts may each be missing, and an amount may be 0
CompensationChoices ==
    {None} \cup
    {Some([interval |-> iv, min_amount |-> a, max_amount |-> b, currency |-> Some("USD")]) :
        iv \in {None, Some("hourly"), Some("monthly"), Some("yearly")},
        a \in {None, Some(0), Some(20)},
        b \in {None, Some(0), Some(30)}}

\* the description of a JobPost: none, the empty string, a text without a
\* salary range, "$20 - $30", "$50,000 - $70,000"
DescriptionChoices ==
    {None,
     Some([empty |-> TRUE, salary |-> None]),
     Some([empty |-> FALSE, salary |-> None]),
     Some([empty |-> FALSE,
           salary |-> Some([min |-> 20, kmin |-> FALSE, max |-> 30, kmax |-> FALSE])]),
     Some([empty |-> FALSE,
           salary |-> Some([min |-> 50000, kmin |-> FALSE, max |-> 70000, kmax |-> FALSE])])}

\* the job_type of a JobPost: none, or a list of JobType values
JobTypeChoices == {None, Some(<<"fulltime", "parttime">>)}

\* a job of a source with a compensation, a description and a job_type
MkRichJob(site, n, compensation, description, job_type) ==
    [MkJob(site, n, None) EXCEPT !["compensation"] = compensation,
                                 !["description"] = description,
                                 !["job_type"] = job_type]

\* the collections the merge step is run on: one job of one source, alone
\* or followed by a job of another source
MergeCollections ==
    {<< <<s, <<MkRichJob(s, 1, c, d, jt)>> >> >> :
        s \in Sites, c \in CompensationChoices, d \in DescriptionChoices, jt \in JobTypeChoices}
    \cup
    {<< <<s, <<MkRichJob(s, 1, c, d, jt)>> >>,
        <<t, <<MkRichJob(t, 1, None, None, None)>> >> >> :
        s \in {"google"}, t \in {"glassdoor", "zip_recruiter"},
        c \in CompensationChoices, d \in DescriptionChoices, jt \in JobTypeChoices}

\* scrape_jobs when the as_completed loop has handled every future: the
\* collection is complete and the merge step is next
MergeInit ==
    /\ \E dict \in MergeCollections :
          /\ site_to_jobs_dict = dict
          /\ scraper_input = [site_type |-> Range(DictKeys(dict)),
                              results_wanted |-> 15, offset |-> 0]
          /\ result = [s \in Sites |-> DictGet(dict, s)]
    /\ enforce_annual \in BOOLEAN
    /\ country_usa \in BOOLEAN
    /\ future = [s \in Sites |-> IF s \in scraper_input.site_type THEN "returned" ELSE "absent"]
    /\ collected = scraper_input.site_type
    /\ logged = {}
    /\ rw_bound = [s \in Sites |-> IF s \in scraper_input.site_type
                                     THEN Some(scraper_input.results_wanted) ELSE None]
    /\ pc = "collect"
    /\ table = EmptyFrame

\* scrape_jobs is not running
OrchIdle ==
    /\ enforce_annual = FALSE
    /\ country_usa = TRUE
    /\ future = [s \in Sites |-> "absent"]
    /\ result = [s \in Sites |-> <<>>]
    /\ collected = {}
    /\ site_to_jobs_dict = <<>>
    /\ logged = {}
    /\ rw_bound = [s \in Sites |-> None]
    /\ pc = "idle"
    /\ table = EmptyFrame

----------------------------------------------------------------------------
(* What the upstreams answer *)

Listings == 1..MaxListing

\* pagination tokens an upstream may return
Cursors == {"c1", "c2"}

OptCursors == {None} \cup {Some(c) : c \in Cursors}

----------------------------------------------------------------------------
(* Glassdoor (src/jobspy/glassdoor/__init__.py) *)

jobs_per_page_gd == 30
max_pages_gd == 30

\* results_wanted and offset of the ScraperInput a Glassdoor scrape is given
GdResultsWanted == {0, 1, 2, jobs_per_page_gd, MaxResultsWanted + 1}
GdOffsets == {0, jobs_per_page_gd}

\* a listing of jobListings: its listingId, and whether the job data has the
\* keys and the ageInDays that _process_job reads unguarded
GdListings == [listingId : Listings, wellFormed : BOOLEAN]

\* the answers to the search request of one page:
\*   "error": the request raised, the status was not 200, the body was no
\*       JSON or it held "errors" (all caught inside _fetch_jobs_page);
\*   "malformed": a 200 JSON body without data.jobListings.jobListings;
\*   "ok": the listings, and the cursor get_cursor_for_page finds for the next page
GdPageAnswers ==
    {[kind |-> "error"], [kind |-> "malformed"]}
    \cup {[kind |-> "ok", listings |-> l, cursor |-> c] :
             l \in SeqsUpTo(GdListings, MaxPageLen), c \in OptCursors}

\* the Glassdoor scraper before scrape is called (__init__)
\* (page_requests counts the search requests, request_cursor is the
\* pageCursor of the last one, detail_fetches lists the URLs whose
\* description was requested)
GdNew ==
    [pc |-> "start", seen_urls |-> {}, job_list |-> <<>>, page |-> 0, range_end |-> 0,
     cursor |-> None, workers |-> <<>>, jobs |-> <<>>, next_cursor |-> None,
     page_requests |-> 0, request_cursor |-> None, detail_fetches |-> <<>>]

\* no Glassdoor scraper exists
GdIdle == gd = [GdNew EXCEPT !.pc = "idle"]

\* the JobPost _process_job builds for a listing
GdJobPost(listing) ==
    [id |-> <<"gd", listing.listingId>>, job_url |-> <<"glassdoor", listing.listingId>>]

GdUnchanged == UNCHANGED <<orch_rest, go, zr, FLARESOLVERR_URL, util_vars>>

\* lines 59-60 of scrape
GdBegin ==
    /\ gd.pc = "start"
    /\ scraper_input' = ScrapePrologue("glassdoor", scraper_input)
    /\ gd' = [gd EXCEPT !.pc = "setup"]
    /\ GdUnchanged

\* range(range_start, range_end) of lines 78-81
GdRangeStart(inp) == 1 + (inp.offset \div jobs_per_page_gd)
GdRangeEnd(inp) == Min((inp.results_wanted \div jobs_per_page_gd) + 2, max_pages_gd + 1)

\* lines 63-80 of scrape: the session, the CSRF token request and the
\* location request, none of them inside a try: a request that raises, or a
\* location answer that cannot be read, leaves scrape as an exception
GdSetup ==
    /\ gd.pc = "setup"
    /\ \/ gd' = [gd EXCEPT !.pc = "raised"]
       \/ gd' = [gd EXCEPT !.page = GdRangeStart(scraper_input),
                           !.range_end = GdRangeEnd(scraper_input),
                           !.pc = IF GdRangeStart(scraper_input) < GdRangeEnd(scraper_input)
                                  THEN "page" ELSE "done"]
    /\ UNCHANGED scraper_input
    /\ GdUnchanged

\* GdAfterPage with the jobs of the page put before those of the earlier pages
GdAfterPagePrepending(job_list, jobs, results_wanted) ==
    IF jobs = <<>> \/ Len(jobs \o job_list) >= results_wanted
    THEN [job_list |-> Take(jobs \o job_list, results_wanted), break |-> TRUE]
    ELSE [job_list |-> jobs \o job_list, break |-> FALSE]

\* job_list after a page returned jobs and cursor (lines 87-90), and whether
\* the loop breaks
GdAfterPage(job_list, jobs, results_wanted) ==
    IF jobs = <<>> \/ Len(job_list \o jobs) >= results_wanted
    THEN [job_list |-> Take(job_list \o jobs, results_wanted), break |-> TRUE]
    ELSE [job_list |-> job_list \o jobs, break |-> FALSE]

\* the for loop goes on to the next page, or is exhausted
GdNextPage(g) ==
    [g EXCEPT !.page = g.page + 1,
              !.pc = IF g.page + 1 < g.range_end THEN "page" ELSE "done"]

\* the scraper after the answer to the search request of a page:
\*   "error": _fetch_jobs_page returns ([], None), and scrape breaks on not jobs;
\*   "malformed": line 131 raises KeyError, caught at line 91 of scrape;
\*   "ok": one worker per listing is submitted
GdAnswered(g, answer, results_wanted) ==
    IF answer.kind = "error"
    THEN [g EXCEPT !.cursor = None,
                   !.job_list = GdAfterPage(g.job_list, <<>>, results_wanted).job_list,
                   !.pc = "done"]
    ELSE IF answer.kind = "malformed"
    THEN [g EXCEPT !.pc = "done"]
    ELSE [g EXCEPT !.pc = "workers",
                   !.jobs = <<>>,
                   !.next_cursor = answer.cursor,
                   !.workers = [i \in DOMAIN answer.listings |->
                                  [listing |-> answer.listings[i], pc |-> "test"]]]

\* "pageCursor": cursor of _add_payload, never sent
GdPayloadCursorDropped(g) == None

\* "pageCursor": cursor of _add_payload (line 316), cursor the variable of
\* the loop of scrape
GdPayloadCursor(g) == g.cursor

\* _fetch_jobs_page up to the submission of the workers (lines 107-136)
GdFetchPage ==
    /\ gd.pc = "page"
    /\ \E answer \in GdPageAnswers :
          gd' = GdAnswered([gd EXCEPT !.page_requests = @ + 1,
                                     !.request_cursor = GdPayloadCursor(gd)],
                           answer, scraper_input.results_wanted)
    /\ UNCHANGED scraper_input
    /\ GdUnchanged

\* _process_job, line 167: if job_url in self.seen_urls: return None
GdWorkerTest(i) ==
    /\ gd.pc = "workers"
    /\ gd.workers[i].pc = "test"
    /\ gd' = [gd EXCEPT !.workers[i].pc =
                 IF GdJobPost(gd.workers[i].listing).job_url \in gd.seen_urls
                 THEN "skipped" ELSE "add"]
    /\ UNCHANGED scraper_input
    /\ GdUnchanged

\* _process_job, lines 169-186: self.seen_urls.add(job_url), then the fields
\* are read, which raises on a listing that lacks them
GdWorkerAdd(i) ==
    /\ gd.pc = "workers"
    /\ gd.workers[i].pc = "add"
    /\ gd' = [gd EXCEPT !.seen_urls = @ \cup {GdJobPost(gd.workers[i].listing).job_url},
                        !.workers[i].pc = IF gd.workers[i].listing.wellFormed
                                          THEN "fetch" ELSE "raised"]
    /\ UNCHANGED scraper_input
    /\ GdUnchanged

\* _process_job, lines 187-215: the description is fetched (a failure of the
\* fetch is caught), the JobPost is returned and as_completed hands it to
\* the loop of line 137, which appends it
GdWorkerFetch(i) ==
    /\ gd.pc = "workers"
    /\ gd.workers[i].pc = "fetch"
    /\ gd' = [gd EXCEPT !.workers[i].pc = "returned",
                        !.detail_fetches = Append(@, GdJobPost(gd.workers[i].listing).job_url),
                        !.jobs = Append(@, GdJobPost(gd.workers[i].listing))]
    /\ UNCHANGED scraper_input
    /\ GdUnchanged

\* every worker of the page has finished: _fetch_jobs_page returns, or
\* raises GlassdoorException for a worker that raised (line 143), and the
\* loop of scrape goes on (lines 84-93)
GdPageDone ==
    /\ gd.pc = "workers"
    /\ \A i \in DOMAIN gd.workers : gd.workers[i].pc \in {"skipped", "returned", "raised"}
    /\ IF \E i \in DOMAIN gd.workers : gd.workers[i].pc = "raised"
       THEN gd' = [gd EXCEPT !.pc = "done", !.workers = <<>>, !.jobs = <<>>]
       ELSE LET after == GdAfterPage(gd.job_list, gd.jobs, scraper_input.results_wanted)
                g == [gd EXCEPT !.job_list = after.job_list,
                                !.cursor = gd.next_cursor,
                                !.workers = <<>>,
                                !.jobs = <<>>]
            IN  gd' = IF after.break THEN [g EXCEPT !.pc = "done"] ELSE GdNextPage(g)
    /\ UNCHANGED scraper_input
    /\ GdUnchanged

\* the jobs of a search page of an upstream that answers every request
\* with jobs_per_page listings, all well formed and none seen before
GdFullPage(page) ==
    [i \in 1..jobs_per_page_gd |->
        GdJobPost([listingId |-> (page - 1) * jobs_per_page_gd + i, wellFormed |-> TRUE])]

\* _fetch_jobs_page on such a page with every worker through (lines
\* 107-147), and the loop of scrape going on (lines 84-90)
GdFetchFullPage ==
    /\ gd.pc = "page"
    /\ LET jobs == GdFullPage(gd.page)
           after == GdAfterPage(gd.job_list, jobs, scraper_input.results_wanted)
           g == [gd EXCEPT !.page_requests = @ + 1,
                           !.request_cursor = GdPayloadCursor(gd),
                           !.seen_urls = @ \cup {jobs[i].job_url : i \in DOMAIN jobs},
                           !.detail_fetches = @ \o [i \in DOMAIN jobs |-> jobs[i].job_url],
                           !.job_list = after.job_list,
                           !.cursor = Some("c1")]
       IN  gd' = IF after.break THEN [g EXCEPT !.pc = "done"] ELSE GdNextPage(g)
    /\ UNCHANGED scraper_input
    /\ GdUnchanged

\* results_wanted and offset of a scrape of full pages
GdFullResultsWanted ==
    {0, 1, jobs_per_page_gd, 2 * jobs_per_page_gd + 1, MaxResultsWanted, MaxResultsWanted + 1}
GdFullOffsets ==
    {0, jobs_per_page_gd - 1, jobs_per_page_gd, 2 * jobs_per_page_gd,
     MaxResultsWanted - jobs_per_page_gd}

GdFullInit ==
    /\ \E rw \in GdFullResultsWanted, off \in GdFullOffsets :
          scraper_input = [site_type |-> {"glassdoor"}, results_wanted |-> rw, offset |-> off]
    /\ gd = GdNew

GdInit ==
    /\ \E rw \in GdResultsWanted, off \in GdOffsets :
          scraper_input = [site_type |-> {"glassdoor"}, results_wanted |-> rw, offset |-> off]
    /\ gd = GdNew

GdNext ==
    \/ GdBegin
    \/ GdSetup
    \/ GdFetchPage
    \/ \E i \in DOMAIN gd.workers : GdWorkerTest(i)
    \/ \E i \in DOMAIN gd.workers : GdWorkerAdd(i)
    \/ \E i \in DOMAIN gd.workers : GdWorkerFetch(i)
    \/ GdPageDone

----------------------------------------------------------------------------
(* The bypass service (src/jobspy/util.py) *)

\* what a request to the bypass service can come to: the request raises, the
\* service answers a status other than "ok", or it answers a solution
FlaresolverrOutcomes == {"raise", "not ok", "ok"}

\* flaresolverr_get(url): every return statement returns a pair, (response,
\* cookies) on success and (None, None) when the service is not configured
\* or the request fails
flaresolverr_get(endpoint, outcome, text) ==
    IF endpoint = None THEN <<None, None>>
    ELSE IF outcome = "ok" THEN <<Some(text), Some("cookies")>>
    ELSE <<None, None>>

\* fs_result["response"] as the callers write it: a pair cannot be indexed by
\* a string, the subscript raises TypeError
FsResponse(fs_result) == [raises |-> TRUE, value |-> None]

----------------------------------------------------------------------------
(* Google (src/jobspy/google/__init__.py) *)

GoResultsWanted == {0, 1, 2, MaxResultsWanted + 1}
GoOffsets == {0, 1}

\* a job of a search page: its id and its URL come from different fields
\* (job_info[28] and job_info[3][0][0]; the id of the inner div and data-share-url)
GoCards == [id : Listings, url : Listings]

\* a page of job listings: the forward cursor in it and its job cards
GoPages == [cursor : OptCursors, cards : SeqsUpTo(GoCards, MaxPageLen)]

\* the answers to the direct search request:
\*   "raise": session.get raises;
\*   "response": a response with its status_code, whether its text has at
\*       least MIN_RESPONSE_LENGTH characters, whether the marker 520084652 is
\*       in it, and the page parsed from it;
\*   "bad job": a good response one of whose jobs _parse_job cannot read
GoDirectAnswers ==
    {[kind |-> "raise"], [kind |-> "bad job"]}
    \cup {[kind |-> "response", status_code |-> 200, long |-> TRUE, marker |-> TRUE, page |-> pg] :
             pg \in GoPages}
    \cup {[kind |-> "response", status_code |-> st, long |-> lg, marker |-> mk,
           page |-> [cursor |-> None, cards |-> <<>>]] :
             st \in {200, 429}, lg \in BOOLEAN, mk \in BOOLEAN}

\* the answers to the request of a next page: the request or the parsing
\* raises, or a page (with no job card when the container is missing)
GoNextAnswers == {[kind |-> "raise"]} \cup {[kind |-> "page", page |-> pg] : pg \in GoPages}

GoJobPost(card) == [id |-> <<"go", card.id>>, job_url |-> <<"google", card.url>>]

RECURSIVE GoParseCards(_, _, _)
\* _parse_job / _parse_job_card_html over the cards of a page, in order: a
\* card whose URL is in seen_urls gives no job, another one is added to it
GoParseCards(cards, seen_urls, jobs) ==
    IF cards = <<>> THEN [jobs |-> jobs, seen_urls |-> seen_urls]
    ELSE IF GoJobPost(Head(cards)).job_url \in seen_urls
    THEN GoParseCards(Tail(cards), seen_urls, jobs)
    ELSE GoParseCards(Tail(cards), seen_urls \cup {GoJobPost(Head(cards)).job_url},
                      Append(jobs, GoJobPost(Head(cards))))

\* the Google scraper before scrape is called (__init__)
\* (page_requests counts the requests of a next page, request_cursor is
\* the fc parameter of the last one, response_cursor the cursor found in the
\* last page parsed, new_jobs the number of jobs that page gave and
\* direct_good the outcome of the test of lines 142-146 on the direct response)
GoNew ==
    [pc |-> "start", seen_urls |-> {}, job_list |-> <<>>, forward_cursor |-> None,
     page |-> 0, response |-> <<>>, direct_requests |-> 0, bypass_requests |-> 0,
     fs_result |-> None, page_requests |-> 0, request_cursor |-> None,
     response_cursor |-> None, new_jobs |-> None, direct_good |-> None]

GoIdle == go = [GoNew EXCEPT !.pc = "idle"]

GoUnchanged == UNCHANGED <<orch_rest, gd, zr, FLARESOLVERR_URL, util_vars>>

\* lines 50-55 of scrape
GoBegin ==
    /\ go.pc = "start"
    /\ scraper_input' = ScrapePrologue("google", scraper_input)
    /\ go' = [go EXCEPT !.pc = "initial"]
    /\ GoUnchanged

\* lines 142-146 of _get_initial_cursor_and_jobs: the direct response is good
GoDirectGood(answer) ==
    answer.status_code = 200 /\ answer.long /\ answer.marker

\* scrape from line 57 on, after _get_initial_cursor_and_jobs returned
\* forward_cursor and job_list: without a cursor scrape returns the jobs of
\* the initial page as they are
GoAfterInitial(g, forward_cursor, parsed) ==
    IF forward_cursor = None
    THEN [g EXCEPT !.pc = "done", !.forward_cursor = None, !.seen_urls = parsed.seen_urls,
                   !.job_list = parsed.jobs, !.response = parsed.jobs]
    ELSE [g EXCEPT !.pc = "loop", !.forward_cursor = forward_cursor,
                   !.seen_urls = parsed.seen_urls, !.job_list = parsed.jobs, !.page = 1]

\* lines 166-180 of _get_initial_cursor_and_jobs on a response text that is
\* long enough: the cursor and the jobs of the initial page
GoParseInitial(g, page) ==
    GoAfterInitial([g EXCEPT !.response_cursor = page.cursor,
                             !.new_jobs = Some(Len(GoParseCards(page.cards, g.seen_urls, <<>>).jobs))],
                   page.cursor, GoParseCards(page.cards, g.seen_urls, <<>>))

\* GoDirectAnswered without the test of lines 142-146: the bypass service
\* is asked whatever the direct response is
GoDirectAnsweredAlwaysBypass(g, answer) ==
    IF answer.kind = "raise" THEN [g EXCEPT !.pc = "raised"]
    ELSE IF answer.kind = "bad job" THEN [g EXCEPT !.pc = "raised", !.direct_good = Some(TRUE)]
    ELSE [g EXCEPT !.pc = "bypass", !.direct_good = Some(GoDirectGood(answer))]

\* the scraper after the answer to the direct request (lines 134-147)
GoDirectAnswered(g, answer) ==
    IF answer.kind = "raise" THEN [g EXCEPT !.pc = "raised"]
    ELSE IF answer.kind = "bad job" THEN [g EXCEPT !.pc = "raised", !.direct_good = Some(TRUE)]
    ELSE IF GoDirectGood(answer)
    THEN GoParseInitial([g EXCEPT !.direct_good = Some(TRUE)], answer.page)
    ELSE [g EXCEPT !.pc = "bypass", !.direct_good = Some(FALSE)]

\* the direct request of _get_initial_cursor_and_jobs
GoDirect ==
    /\ go.pc = "initial"
    /\ \E answer \in GoDirectAnswers :
          go' = GoDirectAnswered([go EXCEPT !.direct_requests = @ + 1], answer)
    /\ UNCHANGED scraper_input
    /\ GoUnchanged

\* lines 157-168 of _get_initial_cursor_and_jobs, with fs_result the value
\* flaresolverr_get returned
GoAfterBypass(g, fs_result) ==
    IF fs_result # None
    THEN IF FsResponse(fs_result).raises
         THEN [g EXCEPT !.pc = "raised"]
         ELSE GoAfterInitial(g, None, [jobs |-> <<>>, seen_urls |-> g.seen_urls])
    ELSE GoAfterInitial(g, None, [jobs |-> <<>>, seen_urls |-> g.seen_urls])

\* lines 148-164 of _get_initial_cursor_and_jobs: the direct request was
\* classified as failed and flaresolverr_get is called
GoBypass ==
    /\ go.pc = "bypass"
    /\ \E outcome \in FlaresolverrOutcomes :
          go' = GoAfterBypass(
                   [go EXCEPT !.bypass_requests = IF FLARESOLVERR_URL = None THEN @ ELSE @ + 1,
                              !.fs_result = flaresolverr_get(FLARESOLVERR_URL, outcome, "html")],
                   flaresolverr_get(FLARESOLVERR_URL, outcome, "html"))
    /\ UNCHANGED scraper_input
    /\ GoUnchanged

\* the condition of the while loop of scrape (lines 65-68)
GoLoopCondition(g, inp) ==
    /\ Cardinality(g.seen_urls) < inp.results_wanted + inp.offset
    /\ g.forward_cursor # None

\* the loop body without the break of lines 77-79: a page without a new
\* job does not end the loop
GoPageAnsweredNoBreak(g, answer) ==
    IF answer.kind = "raise" THEN [g EXCEPT !.pc = "exit"]
    ELSE [g EXCEPT !.forward_cursor = answer.page.cursor,
                   !.response_cursor = answer.page.cursor,
                   !.new_jobs = Some(Len(GoParseCards(answer.page.cards, g.seen_urls, <<>>).jobs)),
                   !.seen_urls = GoParseCards(answer.page.cards, g.seen_urls, <<>>).seen_urls,
                   !.job_list = @ \o GoParseCards(answer.page.cards, g.seen_urls, <<>>).jobs,
                   !.page = @ + 1]

\* the scraper after one pass of the loop body (lines 72-81)
GoPageAnswered(g, answer) ==
    IF answer.kind = "raise" THEN [g EXCEPT !.pc = "exit"]
    ELSE IF GoParseCards(answer.page.cards, g.seen_urls, <<>>).jobs = <<>>
    THEN [g EXCEPT !.pc = "exit", !.forward_cursor = answer.page.cursor,
                   !.response_cursor = answer.page.cursor, !.new_jobs = Some(0)]
    ELSE [g EXCEPT !.forward_cursor = answer.page.cursor,
                   !.response_cursor = answer.page.cursor,
                   !.new_jobs = Some(Len(GoParseCards(answer.page.cards, g.seen_urls, <<>>).jobs)),
                   !.seen_urls = GoParseCards(answer.page.cards, g.seen_urls, <<>>).seen_urls,
                   !.job_list = @ \o GoParseCards(answer.page.cards, g.seen_urls, <<>>).jobs,
                   !.page = @ + 1]

\* params = {"fc": [forward_cursor], ...} of _get_jobs_next_page (line 183)
GoRequestCursor(g) == g.forward_cursor

\* one pass of the while loop: _get_jobs_next_page(forward_cursor)
GoNextPage ==
    /\ go.pc = "loop"
    /\ GoLoopCondition(go, scraper_input)
    /\ \E answer \in GoNextAnswers :
          go' = GoPageAnswered([go EXCEPT !.page_requests = @ + 1,
                                         !.request_cursor = GoRequestCursor(go)],
                               answer)
    /\ UNCHANGED scraper_input
    /\ GoUnchanged

\* the loop is left: lines 82-87
GoReturn ==
    /\ \/ go.pc = "exit"
       \/ go.pc = "loop" /\ ~GoLoopCondition(go, scraper_input)
    /\ go' = [go EXCEPT !.pc = "done",
                        !.response = Slice(go.job_list, scraper_input.offset,
                                           scraper_input.offset + scraper_input.results_wanted)]
    /\ UNCHANGED scraper_input
    /\ GoUnchanged

GoInit ==
    /\ \E rw \in GoResultsWanted, off \in GoOffsets :
          scraper_input = [site_type |-> {"google"}, results_wanted |-> rw, offset |-> off]
    /\ go = GoNew

GoNext ==
    \/ GoBegin
    \/ GoDirect
    \/ GoBypass
    \/ GoNextPage
    \/ GoReturn

----------------------------------------------------------------------------
(* ZipRecruiter (src/jobspy/ziprecruiter/__init__.py) *)

jobs_per_page_zr == 20

ZrResultsWanted == {0, 1, 2, jobs_per_page_zr + 1, MaxResultsWanted + 1}

\* math.ceil(a / b) for b > 0
CeilDiv(a, b) == (a + b - 1) \div b

\* a job of the "jobs" list of the API: its listing_key, and whether it has
\* the posted_time that _process_job reads unguarded and a job page that
\* _get_descr can request
ZrListings == [listing_key : Listings, wellFormed : BOOLEAN]

\* the answers to the request of _find_jobs_in_page:
\*   "error": the request raised or the status is outside 200..399;
\*   "no json": res.json() (line 301, outside the try) raises;
\*   "ok": the jobs and the continue token of the body
ZrPageAnswers ==
    {[kind |-> "error"], [kind |-> "no json"]}
    \cup {[kind |-> "ok", jobs |-> l, continue |-> c] :
             l \in SeqsUpTo(ZrListings, MaxPageLen), c \in OptCursors}

\* the ZipRecruiter scraper after __init__
\* (page_requests counts the requests of the API, request_cursor is the
\* continue_from parameter of the last one)
ZrNew ==
    [pc |-> "start", seen_urls |-> {}, job_list |-> <<>>, page |-> 0, max_pages |-> 0,
     continue_token |-> None, workers |-> <<>>, next_continue_token |-> None,
     response |-> <<>>, bypass_requests |-> 0, page_requests |-> 0,
     request_cursor |-> None]

\* no ZipRecruiter scraper exists
ZrIdle == zr = [ZrNew EXCEPT !.pc = "idle"]

\* the JobPost _process_job builds for a job
ZrJobPost(job) ==
    [id |-> <<"zr", job.listing_key>>, job_url |-> <<"zip_recruiter", job.listing_key>>]

ZrUnchanged == UNCHANGED <<orch_rest, gd, go, scraper_input, FLARESOLVERR_URL, util_vars>>

\* lines 80-90 of scrape and the head of _scrape_website / _scrape_api
ZrBegin ==
    /\ zr.pc = "start"
    /\ zr' = [zr EXCEPT !.pc = IF FLARESOLVERR_URL # None THEN "website" ELSE "api",
                        !.page = 1,
                        !.max_pages = CeilDiv(scraper_input.results_wanted, jobs_per_page_zr)]
    /\ ZrUnchanged

\* the for loop of _scrape_website and of _scrape_api goes on with a page
ZrLoopCondition(z, inp) ==
    z.page <= z.max_pages /\ Len(z.job_list) < inp.results_wanted

\* ZrAfterBypass for a scrape that went over to the API when the bypass
\* request did not give a page
ZrAfterBypassFallback(z, fs_result) == [z EXCEPT !.pc = "api"]

\* lines 124-135 of _scrape_website, with fs_result the value
\* flaresolverr_get returned
ZrAfterBypass(z, fs_result) ==
    IF fs_result = None THEN [z EXCEPT !.pc = "exit"]
    ELSE IF FsResponse(fs_result).raises THEN [z EXCEPT !.pc = "raised"]
    ELSE [z EXCEPT !.pc = "exit"]

\* one pass of the loop of _scrape_website
ZrWebsitePage ==
    /\ zr.pc = "website"
    /\ ZrLoopCondition(zr, scraper_input)
    /\ \E outcome \in FlaresolverrOutcomes :
          zr' = ZrAfterBypass([zr EXCEPT !.bypass_requests = @ + 1],
                              flaresolverr_get(FLARESOLVERR_URL, outcome, "html"))
    /\ ZrUnchanged

\* the scraper after the answer to the request of _find_jobs_in_page
ZrAnswered(z, answer) ==
    IF answer.kind = "error" THEN [z EXCEPT !.pc = "exit", !.continue_token = None]
    ELSE IF answer.kind = "no json" THEN [z EXCEPT !.pc = "raised"]
    ELSE [z EXCEPT !.pc = "workers",
                   !.next_continue_token = answer.continue,
                   !.workers = [i \in DOMAIN answer.jobs |->
                                  [job |-> answer.jobs[i], pc |-> "test", result |-> None]]]

\* lines 276-277 of _find_jobs_in_page: continue_from is sent when the
\* continue_token is truthy
ZrRequestCursor(z) == z.continue_token

\* one pass of the loop of _scrape_api up to the submission of the workers
ZrApiPage ==
    /\ zr.pc = "api"
    /\ ZrLoopCondition(zr, scraper_input)
    /\ \E answer \in ZrPageAnswers :
          zr' = ZrAnswered([zr EXCEPT !.page_requests = @ + 1,
                                     !.request_cursor = ZrRequestCursor(zr)],
                           answer)
    /\ ZrUnchanged

\* _process_job, lines 318-319: if job_url in self.seen_urls: return
ZrWorkerTest(i) ==
    /\ zr.pc = "workers"
    /\ zr.workers[i].pc = "test"
    /\ zr' = [zr EXCEPT !.workers[i].pc =
                 IF ZrJobPost(zr.workers[i].job).job_url \in zr.seen_urls
                 THEN "skipped" ELSE "add"]
    /\ ZrUnchanged

\* _process_job, lines 320-365: self.seen_urls.add(job_url), then the fields
\* are read and the job page is requested, which raises on a job that lacks
\* them, else the JobPost is returned
ZrWorkerAdd(i) ==
    /\ zr.pc = "workers"
    /\ zr.workers[i].pc = "add"
    /\ zr' = [zr EXCEPT !.seen_urls = @ \cup {ZrJobPost(zr.workers[i].job).job_url},
                        !.workers[i].pc = IF zr.workers[i].job.wellFormed
                                          THEN "returned" ELSE "raised",
                        !.workers[i].result = IF zr.workers[i].job.wellFormed
                                              THEN Some(ZrJobPost(zr.workers[i].job))
                                              ELSE None]
    /\ ZrUnchanged

RECURSIVE ZrResults(_)
\* line 309: list(filter(None, (result.result() for result in job_results)))
ZrResults(workers) ==
    IF workers = <<>> THEN <<>>
    ELSE IF Head(workers).result = None THEN ZrResults(Tail(workers))
    ELSE <<Val(Head(workers).result)>> \o ZrResults(Tail(workers))

\* lines 257-262 of _scrape_api after _find_jobs_in_page returned
ZrAfterPage(z, jobs_on_page, continue_token) ==
    IF jobs_on_page = <<>>
    THEN [z EXCEPT !.pc = "exit", !.continue_token = continue_token, !.workers = <<>>]
    ELSE [z EXCEPT !.pc = IF continue_token = None THEN "exit" ELSE "api",
                   !.job_list = @ \o jobs_on_page,
                   !.page = IF continue_token = None THEN @ ELSE @ + 1,
                   !.continue_token = continue_token,
                   !.workers = <<>>]

\* the executor has shut down: result() raises what a worker raised (line
\* 309), else _find_jobs_in_page returns and the loop of _scrape_api goes on
ZrPageDone ==
    /\ zr.pc = "workers"
    /\ \A i \in DOMAIN zr.workers : zr.workers[i].pc \in {"skipped", "returned", "raised"}
    /\ zr' = IF \E i \in DOMAIN zr.workers : zr.workers[i].pc = "raised"
             THEN [zr EXCEPT !.pc = "raised", !.workers = <<>>]
             ELSE ZrAfterPage(zr, ZrResults(zr.workers), zr.next_continue_token)
    /\ ZrUnchanged

\* the loop is left: line 92 of scrape
ZrReturn ==
    /\ \/ zr.pc = "exit"
       \/ zr.pc \in {"website", "api"} /\ ~ZrLoopCondition(zr, scraper_input)
    /\ zr' = [zr EXCEPT !.pc = "done",
                        !.response = Take(zr.job_list, scraper_input.results_wanted)]
    /\ ZrUnchanged

ZrInit ==
    /\ \E rw \in ZrResultsWanted :
          scraper_input = [site_type |-> {"zip_recruiter"}, results_wanted |-> rw, offset |-> 0]
    /\ zr = ZrNew

ZrNext ==
    \/ ZrBegin
    \/ ZrWebsitePage
    \/ ZrApiPage
    \/ \E i \in DOMAIN zr.workers : ZrWorkerTest(i)
    \/ \E i \in DOMAIN zr.workers : ZrWorkerAdd(i)
    \/ ZrPageDone
    \/ ZrReturn

----------------------------------------------------------------------------
(* Proxy-rotating sessions (src/jobspy/util.py): RequestsRotating and      *)
(* TLSRotating rotate alike, so one session stands for both.  An empty     *)
(* dict is None, a proxy dict d is <<d>>.                                  *)

\* the most requests a session is followed for
MaxRequests == 3

\* the longest list of proxies
MaxProxies == 2

\* the threads that share the session, as the workers of a page do
SessionThreads == {"t1", "t2"}

\* proxy strings a caller passes
ProxyEntries == {"localhost", "p1:8080", "http://p2:8080", "socks5://p3:1080"}

\* the proxies argument: None, one string, or a list of strings
ProxyArgs ==
    {[kind |-> "none", value |-> <<>>]}
    \cup {[kind |-> "str", value |-> <<p>>] : p \in ProxyEntries}
    \cup {[kind |-> "list", value |-> l] : l \in SeqsUpTo(ProxyEntries, MaxProxies)}

\* format_proxy(proxy): an address that starts with http://, https:// or
\* socks5:// is kept, any other gets http:// in front
format_proxy(proxy) ==
    LET address == CASE proxy = "localhost" -> "http://localhost"
                     [] proxy = "p1:8080" -> "http://p1:8080"
                     [] OTHER -> proxy
    IN  [http |-> address, https |-> address]

\* RotatingProxySession.__init__: the proxy_cycle, None or the list cycled
RotatingProxySession(proxies) ==
    IF proxies.kind = "str" THEN Some(<<format_proxy(proxies.value[1])>>)
    ELSE IF proxies.kind = "list" /\ proxies.value # <<>>
    THEN Some([i \in DOMAIN proxies.value |-> format_proxy(proxies.value[i])])
    ELSE None

\* a session made with no proxies that has sent nothing
SessionNew ==
    [proxies_arg |-> [kind |-> "none", value |-> <<>>],
     proxy_cycle |-> None,       \* self.proxy_cycle, position is where it stands
     position |-> 1,
     proxies |-> None,           \* self.proxies
     requests |-> 0,             \* calls of request so far
     caller |-> [t \in SessionThreads |-> [pc |-> "idle", k |-> 0]],
     sent |-> <<>>]              \* the requests sent: number of the call, proxies used

SessionIdle == session = SessionNew

SessionUnchanged == UNCHANGED <<orch_vars, scraper_vars, table_again, util_call, headers, glassdoors>>

\* create_session(proxies=proxies)
SessionInit ==
    \E proxies \in ProxyArgs :
        session = [SessionNew EXCEPT !.proxies_arg = proxies,
                                     !.proxy_cycle = RotatingProxySession(proxies)]

\* the head of request / execute_request: the next proxy of the cycle is
\* put in self.proxies, unless it is http://localhost
NextProxy(s) ==
    IF s.proxy_cycle # None
    THEN LET proxy_cycle == Val(s.proxy_cycle)
             next_proxy == proxy_cycle[s.position]
         IN  [s EXCEPT !.position = (s.position % Len(proxy_cycle)) + 1,
                       !.proxies = IF next_proxy.http # "http://localhost"
                                   THEN Some(next_proxy) ELSE None]
    ELSE s

\* thread t calls request (execute_request) and has set self.proxies
SessionRequest(t) ==
    /\ session.caller[t].pc = "idle"
    /\ session.requests < MaxRequests
    /\ session' = [NextProxy(session) EXCEPT
                      !.requests = @ + 1,
                      !.caller[t] = [pc |-> "rotated", k |-> session.requests + 1]]
    /\ SessionUnchanged

\* the base class sends the request of thread t with the session's proxies
SessionSend(t) ==
    /\ session.caller[t].pc = "rotated"
    /\ session' = [session EXCEPT
                      !.sent = Append(@, [k |-> session.caller[t].k,
                                          proxies |-> session.proxies]),
                      !.caller[t] = [pc |-> "idle", k |-> 0]]
    /\ SessionUnchanged

----------------------------------------------------------------------------
(* Glassdoor's request headers (src/jobspy/glassdoor/__init__.py).  The     *)
(* name headers is imported from jobspy.glassdoor.constant: one dict of the *)
(* module, the same object for every Glassdoor instance of the process.     *)
(* A header dict is a record of the two headers scrape sets, None where the *)
(* key is absent.                                                           *)

\* the Glassdoor instances of the process, side by side or one after another
GdInstances == {"a", "b"}

\* the user_agent argument of instance i, when one is given
UserAgent(i) == <<"agent of", i>>

\* the token in the page the upstream answers instance i with, when it has one
CsrfToken(i) == <<"token for", i>>

\* fallback_token of jobspy.glassdoor.constant
fallback_token == <<"fallback token">>

\* a dict with neither header
NoHeaders == [gd_csrf_token |-> None, user_agent |-> None]

\* the dict headers as constant.py is loaded: its user-agent entry may or
\* may not be there
LoadedHeaders == {NoHeaders, [NoHeaders EXCEPT !.user_agent = Some(<<"agent of constant">>)]}

\* a.update(b)
HeadersUpdate(a, b) == [k \in DOMAIN a |-> IF b[k] # None THEN b[k] ELSE a[k]]

\* an instance as __init__ leaves it (requests lists the HTTP requests of
\* its scrape: which one, what sent it, and the two headers it carried)
GlassdoorNew(user_agent) ==
    [pc |-> "start", user_agent |-> user_agent, token |-> None,
     session_headers |-> NoHeaders, requests |-> <<>>]

HeadersIdle ==
    /\ headers = NoHeaders
    /\ glassdoors = [i \in GdInstances |-> [GlassdoorNew(None) EXCEPT !.pc = "idle"]]

HeadersInit ==
    /\ headers \in LoadedHeaders
    /\ \E given \in SUBSET GdInstances :
          glassdoors = [i \in GdInstances |->
                           GlassdoorNew(IF i \in given THEN Some(UserAgent(i)) ELSE None)]

HeadersUnchanged == UNCHANGED <<orch_vars, scraper_vars, table_again, util_call, session>>

\* a request of instance i through self.session, which sends the session's headers
ThroughSession(g, request) ==
    [g EXCEPT !.requests = Append(@, [request |-> request, by |-> "self.session",
                                      headers |-> g.session_headers])]

\* lines 63-66 of scrape and _get_csrf_token: the session is made and the
\* page is requested through it; the request may raise, which nothing
\* catches, and the page may hold no token
HdGetCsrfToken(i) ==
    /\ glassdoors[i].pc = "start"
    /\ \E answer \in {"raises", "no token", "token"} :
          glassdoors' = [glassdoors EXCEPT ![i] =
              [ThroughSession(glassdoors[i], "csrf token") EXCEPT
                  !.token = IF answer = "token" THEN Some(CsrfToken(i)) ELSE None,
                  !.pc = IF answer = "raises" THEN "raised" ELSE "line 67"]]
    /\ UNCHANGED headers
    /\ HeadersUnchanged

\* line 67: headers["gd-csrf-token"] = token if token else fallback_token
HdSetCsrfToken(i) ==
    /\ glassdoors[i].pc = "line 67"
    /\ headers' = [headers EXCEPT !.gd_csrf_token =
                      IF glassdoors[i].token # None THEN glassdoors[i].token
                      ELSE Some(fallback_token)]
    /\ glassdoors' = [glassdoors EXCEPT ![i].pc = "line 68"]
    /\ HeadersUnchanged

\* lines 68-69: if self.user_agent: headers["user-agent"] = self.user_agent
HdSetUserAgent(i) ==
    /\ glassdoors[i].pc = "line 68"
    /\ headers' = IF glassdoors[i].user_agent # None
                  THEN [headers EXCEPT !.user_agent = glassdoors[i].user_agent]
                  ELSE headers
    /\ glassdoors' = [glassdoors EXCEPT ![i].pc = "line 70"]
    /\ HeadersUnchanged

\* line 70: self.session.headers.update(headers)
HdUpdateSession(i) ==
    /\ glassdoors[i].pc = "line 70"
    /\ glassdoors' = [glassdoors EXCEPT
                         ![i].session_headers = HeadersUpdate(@, headers),
                         ![i].pc = "location"]
    /\ UNCHANGED headers
    /\ HeadersUnchanged

\* _get_location: no request for a remote search or one without location,
\* else the lookup through the session, which may raise
HdGetLocation(i) ==
    /\ glassdoors[i].pc = "location"
    /\ \E answer \in {"no request", "raises", "location"} :
          glassdoors' = [glassdoors EXCEPT ![i] =
              IF answer = "no request" THEN [glassdoors[i] EXCEPT !.pc = "page"]
              ELSE [ThroughSession(glassdoors[i], "location") EXCEPT
                       !.pc = IF answer = "raises" THEN "raised" ELSE "page"]]
    /\ UNCHANGED headers
    /\ HeadersUnchanged

\* _fetch_jobs_page: the search request of a page through the session
\* (line 111); the page has a job or scrape ends
HdFetchJobsPage(i) ==
    /\ glassdoors[i].pc = "page"
    /\ \E jobs \in BOOLEAN :
          glassdoors' = [glassdoors EXCEPT ![i] =
              [ThroughSession(glassdoors[i], "search page") EXCEPT
                  !.pc = IF jobs THEN "description" ELSE "done"]]
    /\ UNCHANGED headers
    /\ HeadersUnchanged

\* _fetch_job_description, line 246: requests.post(url, json=body,
\* headers=headers), the function of the requests module with the dict of
\* the module as it is now
HdFetchJobDescription(i) ==
    /\ glassdoors[i].pc = "description"
    /\ glassdoors' = [glassdoors EXCEPT
                         ![i].requests = Append(@, [request |-> "description",
                                                    by |-> "requests",
                                                    headers |-> headers]),
                         ![i].pc = "done"]
    /\ UNCHANGED headers
    /\ HeadersUnchanged

----------------------------------------------------------------------------
(* Specifications *)

\* the bypass service endpoint is read from the environment when util.py is loaded
EnvInit == FLARESOLVERR_URL \in {None, Some("http://localhost:8191/v1")}

\* scrape_jobs over abstract scrapers
Init == OrchInit /\ GdIdle /\ GoIdle /\ ZrIdle /\ FLARESOLVERR_URL = None /\ UtilIdle /\ SessionIdle /\ HeadersIdle
Next ==
    \/ \E site \in Sites : Worker(site)
    \/ \E site \in Sites : Collect(site)
    \/ Merge
Spec == Init /\ [][Next]_vars

\* one Glassdoor scrape
InitGlassdoor == GdInit /\ OrchIdle /\ GoIdle /\ ZrIdle /\ FLARESOLVERR_URL = None /\ UtilIdle /\ SessionIdle /\ HeadersIdle
SpecGlassdoor == InitGlassdoor /\ [][GdNext]_vars

\* one Glassdoor scrape against an upstream of full pages of new jobs
InitGlassdoorFull ==
    /\ GdFullInit
    /\ OrchIdle /\ GoIdle /\ ZrIdle /\ FLARESOLVERR_URL = None /\ UtilIdle /\ SessionIdle /\ HeadersIdle
NextGlassdoorFull ==
    \/ GdBegin
    \/ GdSetup
    \/ GdFetchFullPage
SpecGlassdoorFull == InitGlassdoorFull /\ [][NextGlassdoorFull]_vars

\* one Google scrape
InitGoogle == GoInit /\ OrchIdle /\ GdIdle /\ ZrIdle /\ EnvInit /\ UtilIdle /\ SessionIdle /\ HeadersIdle
SpecGoogle == InitGoogle /\ [][GoNext]_vars

\* one ZipRecruiter scrape
InitZip == ZrInit /\ OrchIdle /\ GdIdle /\ GoIdle /\ EnvInit /\ UtilIdle /\ SessionIdle /\ HeadersIdle
SpecZip == InitZip /\ [][ZrNext]_vars

\* one scrape of one of the three scrapers
InitScrapers ==
    /\ OrchIdle /\ UtilIdle /\ SessionIdle /\ HeadersIdle
    /\ \/ GdInit /\ GoIdle /\ ZrIdle /\ FLARESOLVERR_URL = None
       \/ GoInit /\ GdIdle /\ ZrIdle /\ EnvInit
       \/ ZrInit /\ GdIdle /\ GoIdle /\ EnvInit
NextScrapers ==
    \/ GdNext
    \/ GoNext
    \/ ZrNext
SpecScrapers == InitScrapers /\ [][NextScrapers]_vars

\* the merge step of scrape_jobs, run twice on one collection
InitMerge == MergeInit /\ GdIdle /\ GoIdle /\ ZrIdle /\ FLARESOLVERR_URL = None /\ UtilIdle /\ SessionIdle /\ HeadersIdle
NextMerge ==
    \/ Merge
    \/ MergeAgain
SpecMerge == InitMerge /\ [][NextMerge]_vars

\* calls of the field normalizers
InitUtil ==
    /\ UtilInit
    /\ table_again = EmptyFrame
    /\ scraper_input = [site_type |-> {}, results_wanted |-> 15, offset |-> 0]
    /\ OrchIdle /\ GdIdle /\ GoIdle /\ ZrIdle /\ FLARESOLVERR_URL = None
    /\ SessionIdle /\ HeadersIdle
SpecUtil == InitUtil /\ [][UtilNext]_vars

\* one session shared by the threads that send through it
InitSession ==
    /\ SessionInit
    /\ scraper_input = [site_type |-> {}, results_wanted |-> 15, offset |-> 0]
    /\ OrchIdle /\ GdIdle /\ GoIdle /\ ZrIdle /\ FLARESOLVERR_URL = None /\ UtilIdle
    /\ HeadersIdle
NextSession ==
    \/ \E t \in SessionThreads : SessionRequest(t)
    \/ \E t \in SessionThreads : SessionSend(t)
SpecSession == InitSession /\ [][NextSession]_vars

\* the scrapes of the Glassdoor instances of one process
InitHeaders ==
    /\ HeadersInit
    /\ scraper_input = [site_type |-> {}, results_wanted |-> 15, offset |-> 0]
    /\ OrchIdle /\ GdIdle /\ GoIdle /\ ZrIdle /\ FLARESOLVERR_URL = None /\ UtilIdle
    /\ SessionIdle
NextHeaders ==
    \/ \E i \in GdInstances : HdGetCsrfToken(i)
    \/ \E i \in GdInstances : HdSetCsrfToken(i)
    \/ \E i \in GdInstances : HdSetUserAgent(i)
    \/ \E i \in GdInstances : HdUpdateSession(i)
    \/ \E i \in GdInstances : HdGetLocation(i)
    \/ \E i \in GdInstances : HdFetchJobsPage(i)
    \/ \E i \in GdInstances : HdFetchJobDescription(i)
SpecHeaders == InitHeaders /\ [][NextHeaders]_vars

----------------------------------------------------------------------------
(* Properties of scrape_jobs *)

RowsOfSite(s) == {k \in DOMAIN table.rows : table.rows[k]["site"] = Some(s)}

\* C1: whichever requested sources raise (in the constructor or in scrape),
\* scrape_jobs does not raise, and the table it returns has a row for every
\* job of every source that returned and no row of a source that raised.
C1_PartialFailure ==
    /\ pc # "raised"
    /\ pc = "done" =>
         \A s \in scraper_input.site_type :
            /\ future[s] = "returned" =>
                 \A i \in DOMAIN result[s] :
                    \E k \in RowsOfSite(s) :
                       /\ table.rows[k]["id"] = result[s][i]["id"]
                       /\ table.rows[k]["job_url"] = result[s][i]["job_url"]
                       /\ table.rows[k]["date_posted"] = result[s][i]["date_posted"]
            /\ future[s] = "raised" => RowsOfSite(s) = {} /\ s \in logged

\* a run in which one source raised and another returned jobs
C1_Witness ==
    /\ pc = "done"
    /\ \E s \in Sites : future[s] = "raised"
    /\ \E s \in Sites : future[s] = "returned" /\ result[s] # <<>>

\* C5: in a non-empty returned table the rows are non-decreasing in site;
\* among rows of one site they are non-increasing in date_posted, and rows
\* without a date come after all rows of that site that have one.
C5_SortContract ==
    (pc = "done" /\ table.rows # <<>>) =>
        \A i, j \in DOMAIN table.rows :
            i < j =>
                LET a == table.rows[i]
                    b == table.rows[j]
                IN  /\ SiteRank(Val(a["site"])) <= SiteRank(Val(b["site"]))
                    /\ a["site"] = b["site"] =>
                          /\ a["date_posted"] = None => b["date_posted"] = None
                          /\ (a["date_posted"] # None /\ b["date_posted"] # None)
                                => Val(a["date_posted"]) >= Val(b["date_posted"])

\* a returned table of a source whose jobs arrived out of that order
C5_Witness ==
    /\ pc = "done"
    /\ \E s \in Sites :
          /\ future[s] = "returned"
          /\ Len(result[s]) >= 2
          /\ \/ result[s][1]["date_posted"] = None /\ result[s][2]["date_posted"] # None
             \/ /\ result[s][1]["date_posted"] # None
                /\ result[s][2]["date_posted"] # None
                /\ Val(result[s][1]["date_posted"]) < Val(result[s][2]["date_posted"])

\* the sources that returned, in the order of their names, with their jobs
ReturnedInNameOrder ==
    LET inOrder == <<"glassdoor", "google", "zip_recruiter">>
        returned == SelectSeq(inOrder, LAMBDA s : future[s] = "returned")
    IN  [i \in DOMAIN returned |-> <<returned[i], result[returned[i]]>>]

\* C6: the returned table does not depend on the order in which the source
\* tasks complete: the collection loop ends with exactly one JobResponse per
\* source that returned, no job is lost or duplicated, and the table is the
\* one built from the sources taken in a fixed order.
C6_CompletionOrder ==
    pc = "done" =>
        /\ Len(site_to_jobs_dict) = Cardinality({s \in Sites : future[s] = "returned"})
        /\ \A s \in Sites :
              future[s] = "returned" =>
                 /\ \E i \in DOMAIN site_to_jobs_dict : site_to_jobs_dict[i] = <<s, result[s]>>
                 /\ Cardinality(RowsOfSite(s)) = Len(result[s])
        /\ Len(table.rows) = TotalJobs
        /\ table = MergeTable(ReturnedInNameOrder, enforce_annual, country_usa)

\* a run whose sources completed in another order than that of their names
C6_Witness ==
    /\ pc = "done"
    /\ \E i, j \in DOMAIN site_to_jobs_dict :
          /\ i < j
          /\ SiteRank(site_to_jobs_dict[i][1]) > SiteRank(site_to_jobs_dict[j][1])
          /\ site_to_jobs_dict[i][2] # <<>>
          /\ site_to_jobs_dict[j][2] # <<>>

\* C10: a non-empty returned table has exactly the columns of desired_order,
\* in that order.
C10_CanonicalColumns ==
    (pc = "done" /\ table.rows # <<>>) =>
        /\ table.columns = desired_order
        /\ \A k \in DOMAIN table.rows : DOMAIN table.rows[k] = Range(desired_order)

\* a returned table built from a job_data that has a column outside
\* desired_order and its columns in another order
C10_Witness ==
    /\ pc = "done"
    /\ table.rows # <<>>
    /\ \E i \in DOMAIN site_to_jobs_dict :
          /\ site_to_jobs_dict[i][2] # <<>>
          /\ LET job_data == ProcessJob(site_to_jobs_dict[i][1], site_to_jobs_dict[i][2][1],
                                         enforce_annual, country_usa)
             IN  /\ DictGet(job_data, "company_name") # None
                 /\ "company_name" \notin Range(desired_order)

\* the job_url values of a list of jobs are pairwise distinct
DistinctUrls(jobs) ==
    \A i, j \in DOMAIN jobs : i # j => jobs[i].job_url # jobs[j].job_url

\* C2: the JobResponse a scrape returns holds at most results_wanted jobs;
\* stated for Google.scrape, whose return without a forward cursor hands
\* back the jobs of the initial page as they are
C2_AtMostResultsWanted ==
    go.pc = "done" => Len(go.response) <= scraper_input.results_wanted

\* C3: the job_url values of the jobs a scrape returns are pairwise distinct,
\* whatever the pages hold and however the workers of a page interleave;
\* stated for Glassdoor.scrape
C3_DistinctJobUrls ==
    gd.pc = "done" => DistinctUrls(gd.job_list)

\* C4: scrape never lets an exception out, whatever the upstream does, the
\* setup requests before the pagination included; stated for Glassdoor.scrape
C4_ScrapeNeverRaises ==
    gd.pc # "raised"

\* C7: the results_wanted that bounds the pagination of a source is at most
\* 900, for each source, run alone or with others
C7_ResultsWantedCeiling ==
    \A site \in Sites :
        rw_bound[site] # None => Val(rw_bound[site]) <= MaxResultsWanted

\* C8: no step of a scraper changes the ScraperInput it was given
C8_ScraperInputReadOnly ==
    [][scraper_input' = scraper_input]_vars

\* C9: when the direct request of Google is classified as failed and
\* flaresolverr_get reports that the bypass is not configured or failed,
\* scrape returns an empty JobResponse and does not raise
C9_BypassFailureReturnsEmpty ==
    go.fs_result = <<None, None>> => go.pc = "done" /\ go.response = <<>>

\* the job_data dicts the merge builds from the collected JobResponses
JobDatas == JobsDfs(site_to_jobs_dict, <<>>, enforce_annual, country_usa)

\* every column name of a run: the canonical ones and the keys of the job_data dicts
ColumnNames(job_datas) ==
    Range(desired_order) \cup UNION {Range(DictKeys(job_datas[i])) : i \in DOMAIN job_datas}

\* column c is absent or null in every job record
AllNull(job_datas, c) == \A i \in DOMAIN job_datas : DictGet(job_datas[i], c) = None

\* C11 as stated: a column that is absent or null in every job record does
\* not appear in the table scrape_jobs returns
C11_AllNullColumnsDropped ==
    pc = "done" =>
        LET job_datas == JobDatas
        IN  \A c \in ColumnNames(job_datas) :
                AllNull(job_datas, c) => c \notin Range(table.columns)

\* C11 amended: in a non-empty returned table a column that is absent or
\* null in every job record appears exactly when it is a canonical column,
\* and then every cell of it is the null marker
C11_AllNullColumns ==
    (pc = "done" /\ table.rows # <<>>) =>
        LET job_datas == JobDatas
        IN  \A c \in ColumnNames(job_datas) :
                AllNull(job_datas, c) =>
                    /\ c \in Range(table.columns) <=> c \in Range(desired_order)
                    /\ c \in Range(table.columns) =>
                          \A k \in DOMAIN table.rows : table.rows[k][c] = None

\* a returned table with rows, a canonical column no record has a value for
\* and a key outside the canonical order that is null in every record
C11_Witness ==
    /\ pc = "done"
    /\ table.rows # <<>>
    /\ LET job_datas == JobDatas
       IN  /\ AllNull(job_datas, "description")
           /\ "description" \in Range(table.columns)
           /\ AllNull(job_datas, "compensation")
           /\ "compensation" \in ColumnNames(job_datas)
           /\ "compensation" \notin Range(table.columns)

\* C12: a canonical column for which some job record has a value is in the
\* returned table, and the row of every record holds the record's value in
\* it, the null marker when the record has none
C12_ColumnUnion ==
    pc = "done" =>
        LET job_datas == JobDatas
        IN  \A c \in Range(desired_order) :
                (\E i \in DOMAIN job_datas : DictGet(job_datas[i], c) # None) =>
                    /\ c \in Range(table.columns)
                    /\ Len(table.rows) = Len(job_datas)
                    /\ \A i \in DOMAIN job_datas :
                          \E k \in DOMAIN table.rows :
                             /\ table.rows[k]["id"] = DictGet(job_datas[i], "id")
                             /\ table.rows[k][c] = DictGet(job_datas[i], c)

\* a returned table built from two sources, one with a dated job and the
\* other with a job without a date
C12_Witness ==
    /\ pc = "done"
    /\ \E s, t \in Sites :
          /\ s # t
          /\ future[s] = "returned" /\ future[t] = "returned"
          /\ \E i \in DOMAIN result[s] : result[s][i]["date_posted"] # None
          /\ \A j \in DOMAIN result[t] : result[t][j]["date_posted"] = None
          /\ result[t] # <<>>

\* C13: when no source contributes a job, because it raised or returned no
\* job, scrape_jobs does not raise and returns a table without rows and
\* without columns
C13_EmptyResult ==
    /\ (pc = "done" /\ \A s \in Sites : future[s] = "returned" => result[s] = <<>>) =>
          table = [columns |-> <<>>, rows |-> <<>>]
    /\ (\A s \in Sites : future[s] \in {"returned", "raised"} => result[s] = <<>>) =>
          pc # "raised"

\* scrape_jobs returned after one source raised and another returned no job
C13_Witness ==
    /\ pc = "done"
    /\ \E s, t \in Sites :
          /\ future[s] = "raised"
          /\ future[t] = "returned" /\ result[t] = <<>>
    /\ \A s \in Sites : result[s] = <<>>

----------------------------------------------------------------------------
(* Properties of the field normalizers *)

\* the interval the documentation gives a value: hourly below 350, monthly
\* below 30000, yearly otherwise
IntervalByMagnitude(v) ==
    IF v < 350 THEN "hourly" ELSE IF v < 30000 THEN "monthly" ELSE "yearly"

\* the yearly amount of an amount per interval, for the intervals of extract_salary
YearlyAmount(interval, v) ==
    IF interval = "hourly" THEN v * 2080 ELSE IF interval = "monthly" THEN v * 12 ELSE v

\* the range min - max passes the sanity checks of extract_salary: the
\* maximum is under the threshold the minimum is under, both yearly amounts
\* lie in 1000..700000 and the minimum is the smaller one
PassesSanityChecks(min, max) ==
    /\ IntervalByMagnitude(min) = "hourly" => max < 350
    /\ IntervalByMagnitude(min) = "monthly" => max < 30000
    /\ 1000 <= YearlyAmount(IntervalByMagnitude(min), min)
    /\ YearlyAmount(IntervalByMagnitude(min), min) <= 700000
    /\ 1000 <= YearlyAmount(IntervalByMagnitude(min), max)
    /\ YearlyAmount(IntervalByMagnitude(min), max) <= 700000
    /\ YearlyAmount(IntervalByMagnitude(min), min) < YearlyAmount(IntervalByMagnitude(min), max)

\* extract_salary has returned from a call on a text with the match m
ExtractedFrom(m) ==
    /\ util_call.fn = "extract_salary"
    /\ util_call.returned
    /\ util_call.salary_str # None
    /\ Val(util_call.salary_str).salary = Some(m)

\* C15: without enforce_annual_salary, a match without k suffix that passes
\* the sanity checks is returned as (interval, min, max, "USD") in its own
\* units, the interval being that of the magnitude of min; a text without a
\* match gives four nulls
C15_OriginalUnits ==
    (util_call.fn = "extract_salary" /\ util_call.returned /\ ~util_call.enforce) =>
        /\ util_call.salary_str = None => util_call.salary = NoSalary
        /\ (util_call.salary_str # None /\ Val(util_call.salary_str).salary = None) =>
              util_call.salary = NoSalary
        /\ \A m \in SalaryMatches :
              (ExtractedFrom(m) /\ ~m.kmin /\ ~m.kmax /\ PassesSanityChecks(m.min, m.max)) =>
                  util_call.salary =
                      [interval |-> Some(IntervalByMagnitude(m.min)), min_amount |-> Some(m.min),
                       max_amount |-> Some(m.max), currency |-> Some("USD")]

\* extract_salary("$20 - $30") has returned hourly, 20, 30
C15_Witness ==
    /\ ExtractedFrom([min |-> 20, kmin |-> FALSE, max |-> 30, kmax |-> FALSE])
    /\ ~util_call.enforce
    /\ util_call.salary.interval = Some("hourly")
    /\ util_call.salary.min_amount = Some(20)
    /\ util_call.salary.max_amount = Some(30)

\* the two yearly amounts lie in the sanity window and are in order
InWindow(annual_min, annual_max) ==
    /\ 1000 <= annual_min /\ annual_min <= 700000
    /\ 1000 <= annual_max /\ annual_max <= 700000
    /\ annual_min < annual_max

\* the number of interval units in a year
UnitsPerYear(interval) ==
    IF interval = "hourly" THEN 2080 ELSE IF interval = "monthly" THEN 12 ELSE 1

\* InWindow of the yearly amounts of min and max per interval, with the
\* limits divided instead of the amounts multiplied
InWindowPer(interval, min, max) ==
    /\ (1000 + UnitsPerYear(interval) - 1) \div UnitsPerYear(interval) <= min
    /\ min <= 700000 \div UnitsPerYear(interval)
    /\ (1000 + UnitsPerYear(interval) - 1) \div UnitsPerYear(interval) <= max
    /\ max <= 700000 \div UnitsPerYear(interval)
    /\ min < max

\* C16: a result of extract_salary that is not all nulls has its four parts,
\* and its yearly minimum and maximum (hourly x 2080, monthly x 12) lie in
\* 1000..700000 with the minimum below the maximum; a match whose yearly
\* amounts do not, gives four nulls
C16_SanityWindow ==
    (util_call.fn = "extract_salary" /\ util_call.returned) =>
        /\ util_call.salary # NoSalary =>
              /\ util_call.salary.interval # None
              /\ util_call.salary.min_amount # None
              /\ util_call.salary.max_amount # None
              /\ util_call.salary.currency = Some("USD")
              /\ IF util_call.enforce
                 THEN InWindow(Val(util_call.salary.min_amount), Val(util_call.salary.max_amount))
                 ELSE InWindow(YearlyAmount(Val(util_call.salary.interval),
                                            Val(util_call.salary.min_amount)),
                               YearlyAmount(Val(util_call.salary.interval),
                                            Val(util_call.salary.max_amount)))
        /\ \A m \in SalaryMatches :
              (/\ ExtractedFrom(m)
               /\ ~m.kmin /\ ~m.kmax
               /\ ~InWindowPer(IntervalByMagnitude(m.min), m.min, m.max))
                  => util_call.salary = NoSalary
        /\ \A m \in SalaryMatches :
              (/\ ExtractedFrom(m)
               /\ m.kmin /\ m.kmax
               /\ ~InWindowPer(IntervalByMagnitude(m.min * 1000), m.min * 1000, m.max * 1000))
                  => util_call.salary = NoSalary

\* extract_salary has returned a salary from one match, and four nulls from
\* matches that are out of the window or out of order
C16_Witness ==
    /\ util_call.fn = "extract_salary"
    /\ util_call.returned
    /\ \/ /\ ExtractedFrom([min |-> 5000, kmin |-> FALSE, max |-> 7000, kmax |-> FALSE])
          /\ util_call.salary.interval = Some("monthly")
       \/ /\ ExtractedFrom([min |-> 700000, kmin |-> FALSE, max |-> 700001, kmax |-> FALSE])
          /\ util_call.salary = NoSalary
       \/ /\ ExtractedFrom([min |-> 30, kmin |-> FALSE, max |-> 20, kmax |-> FALSE])
          /\ util_call.salary = NoSalary

\* C17: the k suffix multiplier is applied to each number by its own
\* suffix: the amounts extract_salary returns in their own units are the
\* matched minimum times 1000 exactly when the minimum has a k, and the
\* matched maximum times 1000 exactly when the maximum has a k
C17_IndependentSuffix ==
    \A m \in SalaryMatches :
        (ExtractedFrom(m) /\ ~util_call.enforce /\ util_call.salary # NoSalary) =>
            /\ util_call.salary.min_amount = Some(IF m.kmin THEN m.min * 1000 ELSE m.min)
            /\ util_call.salary.max_amount = Some(IF m.kmax THEN m.max * 1000 ELSE m.max)

\* C18: convert_to_annual multiplies min_amount and max_amount by 2080 for
\* hourly, 12 for monthly, 52 for weekly, 260 for daily and leaves them for
\* yearly; it sets interval to "yearly" and changes no other key
C18_ConvertToAnnual ==
    (util_call.fn = "convert_to_annual" /\ util_call.returned) =>
        LET before == util_call.job_data_arg
            after == util_call.job_data
            interval == Val(DictGet(before, "interval"))
            factor == CASE interval = "hourly" -> 2080
                        [] interval = "monthly" -> 12
                        [] interval = "weekly" -> 52
                        [] interval = "daily" -> 260
                        [] interval = "yearly" -> 1
        IN  /\ DictGet(after, "min_amount") = Some(Val(DictGet(before, "min_amount")) * factor)
            /\ DictGet(after, "max_amount") = Some(Val(DictGet(before, "max_amount")) * factor)
            /\ DictGet(after, "interval") = Some("yearly")
            /\ DictKeys(after) = DictKeys(before)
            /\ \A i \in DOMAIN before :
                  before[i][1] \notin {"interval", "min_amount", "max_amount"} =>
                      after[i] = before[i]

\* convert_to_annual has returned from a call with a daily interval, and
\* from the monthly 5000 - 7000 of the documentation
C18_Witness ==
    /\ util_call.fn = "convert_to_annual"
    /\ util_call.returned
    /\ \/ /\ DictGet(util_call.job_data_arg, "interval") = Some("daily")
          /\ DictGet(util_call.job_data, "min_amount") = Some(5200)
       \/ /\ DictGet(util_call.job_data_arg, "interval") = Some("monthly")
          /\ DictGet(util_call.job_data, "min_amount") = Some(60000)
          /\ DictGet(util_call.job_data, "max_amount") = Some(84000)

----------------------------------------------------------------------------
(* Properties of the salary columns of the merged table *)

\* the rows of the returned table built from the JobPost job
RowsOfJob(job) == {k \in DOMAIN table.rows : table.rows[k]["id"] = job["id"]}

\* the salary columns of row k
RowSalary(k) ==
    [interval |-> table.rows[k]["interval"],
     min_amount |-> table.rows[k]["min_amount"],
     max_amount |-> table.rows[k]["max_amount"],
     currency |-> table.rows[k]["currency"]]

\* C19 as stated: with enforce_annual_salary set, the row of every record
\* with a structured compensation whose interval is not yearly has the
\* interval "yearly", whatever its amounts
C19_AnnualEnforced ==
    (pc = "done" /\ enforce_annual) =>
        \A s \in Sites : \A i \in DOMAIN result[s] :
            LET c == result[s][i]["compensation"]
            IN  (c # None /\ Val(c).interval # None /\ Val(c).interval # Some("yearly")) =>
                    \A k \in RowsOfJob(result[s][i]) :
                        table.rows[k]["interval"] = Some("yearly")

\* C20 as stated: the salary columns of a record with a structured
\* compensation are not taken from the description, and those of a record
\* without one are what extract_salary returns for its description
C20_ExtractionWithoutCompensation ==
    pc = "done" =>
        \A s \in Sites : \A i \in DOMAIN result[s] : \A k \in RowsOfJob(result[s][i]) :
            LET job == result[s][i]
            IN  IF job["compensation"] # None
                THEN table.rows[k]["salary_source"] # Some("description")
                ELSE RowSalary(k) = extract_salary(job["description"], enforce_annual)

\* C20 amended: the salary columns of a record with a structured
\* compensation are not taken from the description (when no annual
\* conversion is asked for they are the compensation's own); those of a
\* record without one are what extract_salary returns for its description
\* when the country is the USA, and are null for any other country
C20_ExtractionInUsaWithoutCompensation ==
    pc = "done" =>
        \A s \in Sites : \A i \in DOMAIN result[s] : \A k \in RowsOfJob(result[s][i]) :
            LET job == result[s][i]
            IN  IF job["compensation"] # None
                THEN /\ table.rows[k]["salary_source"] # Some("description")
                     /\ ~enforce_annual => RowSalary(k) = Val(job["compensation"])
                ELSE IF country_usa
                THEN /\ RowSalary(k) = extract_salary(job["description"], enforce_annual)
                     /\ table.rows[k]["salary_source"] =
                            IF TruthyNum(table.rows[k]["min_amount"])
                            THEN Some("description") ELSE None
                ELSE /\ RowSalary(k) = NoSalary
                     /\ table.rows[k]["salary_source"] = None

\* the merge has run for a country other than the USA on a record without
\* compensation whose description holds a salary range, and the record's
\* row has no amount
C20_Witness ==
    /\ pc = "done"
    /\ ~country_usa
    /\ \E s \in Sites : \E i \in DOMAIN result[s] :
          /\ result[s][i]["description"] # None
          /\ Val(result[s][i]["description"]).salary # None
          /\ result[s][i]["compensation"] = None
          /\ \E k \in RowsOfJob(result[s][i]) : table.rows[k]["min_amount"] = None

----------------------------------------------------------------------------
(* Properties of the scrapers *)

\* the id values of a list of jobs are pairwise distinct
DistinctIds(jobs) ==
    \A i, j \in DOMAIN jobs : i # j => jobs[i].id # jobs[j].id

\* C21: no two jobs of the JobResponse a scrape returns share an id; stated
\* for Google.scrape, which tells jobs apart by their URL and takes the id
\* from another field of the card
C21_DistinctIds ==
    go.pc = "done" => DistinctIds(go.response)

\* C22: an exception raised while one job of a page is processed costs that
\* job only: when the workers of a page have finished, the jobs the other
\* workers returned are added to the jobs of the scrape (as far as
\* results_wanted has room for them); stated for Glassdoor
C22_JobErrorIsolated ==
    [][(/\ gd.pc = "workers"
        /\ gd'.pc # "workers"
        /\ Len(gd.job_list \o gd.jobs) <= scraper_input.results_wanted)
          => gd'.job_list = gd.job_list \o gd.jobs]_vars

----------------------------------------------------------------------------
(* Properties of the text normalizers *)

\* C23: extract_emails_from_text returns null when the text holds no
\* address, be it empty, missing or without a match, and the list of all
\* matches otherwise
C23_NullWithoutEmail ==
    (util_call.fn = "extract_emails_from_text" /\ util_call.returned) =>
        util_call.found =
            IF util_call.text = None \/ Val(util_call.text).emails = <<>> THEN None
            ELSE Some(Val(util_call.text).emails)

\* C24: extract_job_type returns the list of all job types whose keyword is
\* in the text, and null when there is none, also for an empty or missing
\* description
C24_NullWithoutJobType ==
    (util_call.fn = "extract_job_type" /\ util_call.returned) =>
        LET job_types == IF util_call.text = None THEN {} ELSE Val(util_call.text).job_types
        IN  IF job_types = {} THEN util_call.found = None
            ELSE /\ util_call.found # None
                 /\ Range(Val(util_call.found)) = job_types
                 /\ Len(Val(util_call.found)) = Cardinality(job_types)

----------------------------------------------------------------------------
(* Properties of the pagination *)

\* C25: a page request after the first that fails (the request raises, the
\* status is no success, the body cannot be read) ends the pagination and
\* the jobs of the earlier pages stay collected for the JobResponse; stated
\* for the API path of ZipRecruiter, where a page request either hands its
\* jobs to the workers, or the loop is left
C25_FailedPageKeepsJobs ==
    [][(/\ zr.pc = "api"
        /\ zr.page > 1
        /\ zr'.pc \notin {"workers", "done"})
          => (zr'.pc = "exit" /\ zr'.job_list = zr.job_list)]_vars

\* C26: the page requests of a scrape are bounded: Glassdoor's loop runs
\* over at most max_pages pages from range_start on, ZipRecruiter requests
\* at most ceil(results_wanted / jobs_per_page) pages on either path, and
\* Google's cursor loop makes at most results_wanted + offset requests
C26_BoundedPagination ==
    /\ gd.pc \in {"page", "workers", "done"} =>
          /\ gd.page_requests <= Max(gd.range_end - GdRangeStart(scraper_input), 0)
          /\ GdRangeStart(scraper_input) >= 1
          /\ gd.range_end <= max_pages_gd + 1
    /\ gd.page_requests <= max_pages_gd
    /\ zr.pc # "idle" =>
          zr.page_requests + zr.bypass_requests
              <= CeilDiv(scraper_input.results_wanted, jobs_per_page_zr)
    /\ go.pc # "idle" =>
          go.page_requests <= scraper_input.results_wanted + scraper_input.offset

\* Google has returned after as many passes of its loop as results_wanted +
\* offset allows, each but the last having found a new job
C26_Witness ==
    /\ go.pc = "done"
    /\ go.page_requests = 2
    /\ scraper_input.results_wanted + scraper_input.offset = 2

\* C27: the first page request of a scrape carries no pagination token, and
\* every later one carries the token the response to the request before it
\* returned; for Glassdoor, Google (where the first cursor comes with the
\* initial search page) and the API path of ZipRecruiter
C27_TokenCarried ==
    [][/\ gd'.page_requests > gd.page_requests =>
             gd'.request_cursor = IF gd.page_requests = 0 THEN None ELSE gd.next_cursor
       /\ zr'.page_requests > zr.page_requests =>
             zr'.request_cursor = IF zr.page_requests = 0 THEN None
                                  ELSE zr.next_continue_token
       /\ go'.page_requests > go.page_requests =>
             /\ go'.request_cursor = go.response_cursor
             /\ go'.request_cursor # None]_vars

\* ZipRecruiter has requested a second page of its API with the continue
\* token of the first
C27_Witness ==
    /\ zr.page_requests = 2
    /\ zr.request_cursor # None
    /\ zr.request_cursor = zr.continue_token

\* C28: after a page response without a next token the scraper makes no
\* further page request; stated for Glassdoor, whose response to a page
\* holds the cursor of the next page or none
C28_NoTokenNoRequest ==
    [][gd'.page_requests > gd.page_requests =>
          (gd.page_requests = 0 \/ gd.next_cursor # None)]_vars

\* C29: after a page that gave no new job (it is empty, or all its jobs are
\* in seen_urls) the scraper requests no further page; stated for Google,
\* whose initial search page is the first page
C29_NoNewJobsNoRequest ==
    [][go'.page_requests > go.page_requests => go.new_jobs # Some(0)]_vars

\* the elements of a sequence are pairwise distinct
NoRepeats(seq) == \A i, j \in DOMAIN seq : i # j => seq[i] # seq[j]

\* C30: a scraper requests the detail of a URL at most once, however the
\* _process_job workers of a page interleave; stated for Glassdoor
C30_OneDetailFetchPerUrl ==
    NoRepeats(gd.detail_fetches)

\* sequence new is sequence old with elements added at its end
Extends(old, new) ==
    Len(new) >= Len(old) /\ SubSeq(new, 1, Len(old)) = old

\* C31: the jobs of a page are put after the jobs of the pages before it,
\* in whatever order the workers of the page complete: a step of a scraper
\* adds jobs to its list at the end only, or cuts the list at its end, and
\* the JobResponse is a stretch of that list
C31_PageOrder ==
    [][/\ Extends(gd.job_list, gd'.job_list) \/ Extends(gd'.job_list, gd.job_list)
       /\ Extends(zr.job_list, zr'.job_list)
       /\ Extends(go.job_list, go'.job_list)
       /\ zr'.pc = "done" => Extends(zr'.response, zr'.job_list)
       /\ go'.pc = "done" =>
             \E a \in 0..Len(go'.job_list) :
                go'.response = SubSeq(go'.job_list, a + 1, a + Len(go'.response))]_vars

\* Google has returned a job of its initial page and, after it, a job of
\* the next page
C31_Witness ==
    /\ go.pc = "done"
    /\ go.page_requests = 1
    /\ go.new_jobs = Some(1)
    /\ Len(go.job_list) = 2
    /\ go.response = go.job_list

----------------------------------------------------------------------------
(* Properties of the bypass fallback *)

\* C32: a Google scrape asks the bypass service at most once, and only
\* after its one direct request was classified as failed; a direct response
\* with status 200, at least 1000 characters and the marker is followed by
\* no bypass request
C32_BypassAfterFailedDirect ==
    /\ go.bypass_requests <= 1
    /\ go.direct_requests <= 1
    /\ (go.bypass_requests = 1 \/ go.pc = "bypass") =>
          (go.direct_requests = 1 /\ go.direct_good = Some(FALSE))
    /\ go.direct_good = Some(TRUE) => (go.bypass_requests = 0 /\ go.pc # "bypass")

\* Google has asked the configured bypass service after a direct response
\* that failed the test
C32_Witness ==
    /\ go.bypass_requests = 1
    /\ go.direct_good = Some(FALSE)
    /\ FLARESOLVERR_URL # None

\* C33: with the bypass service configured, ZipRecruiter's website path
\* does not raise: a bypass request that fails ends the pagination and
\* scrape returns, one that succeeds has its response text parsed
C33_WebsitePathReturns ==
    FLARESOLVERR_URL # None => zr.pc # "raised"

\* C34: a ZipRecruiter scrape takes the website path exactly when the
\* bypass endpoint is configured and the API path otherwise, and never
\* makes a request of the other path, whatever the chosen path comes to
C34_OnePath ==
    /\ zr.pc = "website" => FLARESOLVERR_URL # None
    /\ zr.pc \in {"api", "workers"} => FLARESOLVERR_URL = None
    /\ zr.bypass_requests > 0 => (FLARESOLVERR_URL # None /\ zr.page_requests = 0)
    /\ zr.page_requests > 0 => (FLARESOLVERR_URL = None /\ zr.bypass_requests = 0)
    /\ zr.pc \in {"done", "raised"} =>
          IF FLARESOLVERR_URL # None THEN zr.page_requests = 0
          ELSE zr.bypass_requests = 0

\* the website path has come to its end on a bypass request and no request
\* of the API was made
C34_Witness ==
    /\ zr.pc \in {"done", "raised"}
    /\ FLARESOLVERR_URL # None
    /\ zr.bypass_requests = 1
    /\ zr.page_requests = 0

----------------------------------------------------------------------------
(* Properties of the proxy rotation *)

\* what the k-th request of a session made with proxies is to be sent with
RoundRobinProxies(proxies, k) ==
    IF proxies.kind = "list" /\ proxies.value # <<>>
    THEN LET n == Len(proxies.value)
             entry == format_proxy(proxies.value[((k - 1) % n) + 1])
         IN  IF entry.http = "http://localhost" THEN None ELSE Some(entry)
    ELSE None

\* C35: a session created with a list of n >= 1 proxies sends its k-th
\* request through proxy number (k-1) mod n of the list, with no proxy when
\* that entry is localhost; a session created with no proxies never sets
\* one.
C35_RoundRobin ==
    /\ session.proxies_arg.kind = "list" =>
          \A i \in DOMAIN session.sent :
              session.sent[i].proxies =
                  RoundRobinProxies(session.proxies_arg, session.sent[i].k)
    /\ (session.proxies_arg.kind = "none" \/ session.proxies_arg.value = <<>>) =>
          session.proxies = None

----------------------------------------------------------------------------
(* Properties of the salary read from a description *)

\* C36: the tuple extract_salary returns is unit-consistent: with
\* enforce_annual_salary set, a returned salary carries the annualized
\* amounts and the interval "yearly".
C36_UnitConsistent ==
    (/\ util_call.fn = "extract_salary"
     /\ util_call.returned
     /\ util_call.enforce
     /\ util_call.salary.interval # None)
    => util_call.salary.interval = Some("yearly")

\* the two numbers of the range a returned call of extract_salary matched,
\* after the k suffix is applied
MatchedRange ==
    LET m == Val(Val(util_call.salary_str).salary)
        k == IF m.kmin \/ m.kmax THEN 1000 ELSE 1
    IN  [min |-> m.min * k, max |-> m.max * k]

\* extract_salary has returned from a text in which the pattern matched
SalaryMatched ==
    /\ util_call.fn = "extract_salary"
    /\ util_call.returned
    /\ util_call.salary_str # None
    /\ Val(util_call.salary_str).salary # None

\* C37: extract_salary classifies a range by its minimum alone and requires
\* the maximum to be under the same threshold: when min < 350 <= max, or
\* 350 <= min < 30000 <= max, it returns the all-null tuple.
C37_MaximumUnderSameThreshold ==
    SalaryMatched =>
        ((\/ MatchedRange.min < 350 /\ 350 <= MatchedRange.max
          \/ 350 <= MatchedRange.min /\ MatchedRange.min < 30000 /\ 30000 <= MatchedRange.max)
         => util_call.salary = NoSalary)

\* the range 25000 - 45000 has been read, and no salary returned
C37_Witness ==
    /\ SalaryMatched
    /\ MatchedRange = [min |-> 25000, max |-> 45000]
    /\ util_call.salary = NoSalary

----------------------------------------------------------------------------
(* Properties of the Glassdoor page range *)

\* C38: against an upstream that answers every search request with a full
\* page of 30 new jobs and never fails, a Glassdoor scrape returns exactly
\* min(results_wanted, 900) jobs, whatever the offset.
C38_FullPagesGiveResultsWanted ==
    gd.pc = "done" => Len(gd.job_list) = Min(scraper_input.results_wanted, 900)

----------------------------------------------------------------------------
(* Properties of Glassdoor's request headers *)

\* C39: Glassdoor keeps no state outside the instance: every request of a
\* scrape is sent through the instance's own session, and no request
\* carries a user agent or a CSRF token that another instance set.
C39_NoStateOutsideInstance ==
    \A i \in GdInstances :
        \A n \in DOMAIN glassdoors[i].requests :
            LET r == glassdoors[i].requests[n]
            IN  /\ r.by = "self.session"
                /\ \A j \in GdInstances \ {i} :
                      /\ r.headers.user_agent # Some(UserAgent(j))
                      /\ r.headers.gd_csrf_token # Some(CsrfToken(j))

====
